---- MODULE Spec2Model ----
(***************************************************************************)
(* Model of the R2 object uploader: the upload handlers (api/upload.js and *)
(* the counter-service variant), the usage endpoints and the usage-tracker *)
(* worker.                                                                 *)
(*                                                                         *)
(* Storage quantities are counted in KiB (1024 bytes), because TLC's       *)
(* integers are 32 bits wide and 10 GiB in bytes does not fit: 10 GiB is   *)
(* STORAGE_GB * 1024 * 1024 KiB.  Percentages are never computed as        *)
(* floating point numbers: "x / limit * 100 > 50" is written               *)
(* "x * 100 > 50 * limit", which is what the doubles of the source decide  *)
(* for the integers of the model.                                          *)
(***************************************************************************)
EXTENDS Integers, Sequences, FiniteSets, TLC

VARIABLES
  now,            \* Date.now(), in milliseconds
  ticks,          \* number of clock steps taken (bounded)
  rateLimitStore, \* upload.js: Map ip -> list of attempt timestamps
  admitted,       \* history: ip -> timestamps of the calls rateLimitCheck admitted
  calls,          \* ip -> number of rateLimitCheck calls made (bounded)
  lastCall,       \* the last rate-limited request: ip, time, admitted, response
  variant,        \* which upload handler is deployed: "analytics" or "counter"
  cfg,            \* process.env: which settings are present
  reqs,           \* the upload requests: position in the handler, locals, response
  bucket,         \* the objects written to the blob store
  kv,             \* the worker's KV namespace R2_USAGE_TRACKER
  month,          \* the calendar month of the wall clock
  kvFailures,     \* number of KV operations that failed (bounded)
  data,           \* usage.js: the answer to the operations query
  operationCounts \* usage.js: what processOperationsData made of it

varsRate == <<now, ticks, rateLimitStore, admitted, calls, lastCall>>

varsOps == <<data, operationCounts>>

varsUpload == <<variant, cfg, reqs, bucket, kv, month, kvFailures, varsOps>>

vars == <<now, ticks, rateLimitStore, admitted, calls, lastCall,
          variant, cfg, reqs, bucket, kv, month, kvFailures, data, operationCounts>>

----------------------------------------------------------------------------
(* Bounds of the model *)

MaxTicks == 2
MaxCalls == 22
MaxOtherCalls == 1
MaxMonth == 2
MaxKvFailures == 1
MaxGroups == 3

\* No operations query was answered, and nothing was counted.
NoData == [accounts |-> << >>]

NoCounts == [classA |-> 0, classB |-> 0]

----------------------------------------------------------------------------
(* Rate limiter, api/upload.js *)

IPs == {"ip1", "ip2"}

windowMs == 15 * 60 * 1000

maxAttempts == 20

retryAfter == 900

\* The clock steps the model takes: one millisecond and the window itself,
\* so that attempts exactly windowMs old and one millisecond older occur
\* (and, where the clock is set back, attempts one millisecond younger).
TickSteps == {1, windowMs}

CallBudget(ip) == IF ip = "ip1" THEN MaxCalls ELSE MaxOtherCalls

\* Mutant: an attempt exactly windowMs old still counts.
recentAttempts_inclusive(attempts, t) ==
  SelectSeq(attempts, LAMBDA time : t - time <= windowMs)

\* attempts.filter((time) => now - time < windowMs)
recentAttempts(attempts, t) == SelectSeq(attempts, LAMBDA time : t - time < windowMs)

\* rateLimitStore.get(ip) || []
storeGet(store, ip) == IF ip \in DOMAIN store THEN store[ip] ELSE <<>>

\* Mutant: the list is stored under every identity of the table.
storeSet_everyKey(store, ip, list) == [k \in DOMAIN store \cup {ip} |-> list]

\* rateLimitStore.set(ip, list)
storeSet(store, ip, list) ==
  [k \in DOMAIN store \cup {ip} |-> IF k = ip THEN list ELSE store[k]]

\* Mutant: the sweep keeps only the attempts of the last half window.
cleanupFilter_halfWindow(attempts, t) ==
  SelectSeq(attempts, LAMBDA time : 2 * (t - time) < windowMs)

\* The filter of the sweep, cleanupRateLimit's own
\* attempts.filter((time) => now - time < windowMs)
cleanupFilter(attempts, t) == SelectSeq(attempts, LAMBDA time : t - time < windowMs)

\* Mutant: the sweep keeps the identities whose list became empty.
cleanupRateLimit_keepEmpty(store, t) ==
  [ip \in DOMAIN store |-> cleanupFilter(store[ip], t)]

cleanupRateLimit(store, t) ==
  LET keep == {ip \in DOMAIN store : Len(cleanupFilter(store[ip], t)) # 0}
  IN  [ip \in keep |-> cleanupFilter(store[ip], t)]

\* Mutant: the cap is compared with > instead of >=.
rateLimitCheck_offByOne(store, ip, t, sweep) ==
  LET recent == recentAttempts(storeGet(store, ip), t)
  IN  IF Len(recent) > maxAttempts
        THEN [ok |-> FALSE, store |-> store]
        ELSE LET written == storeSet(store, ip, Append(recent, t))
             IN  [ok |-> TRUE,
                  store |-> IF sweep THEN cleanupRateLimit(written, t) ELSE written]

\* The result of rateLimitCheck(ip) at time t: whether the call is admitted
\* and the table it leaves.  sweep is the outcome of Math.random() < 0.01.
rateLimitCheck(store, ip, t, sweep) ==
  LET recent == recentAttempts(storeGet(store, ip), t)
  IN  IF Len(recent) >= maxAttempts
        THEN [ok |-> FALSE, store |-> store]
        ELSE LET written == storeSet(store, ip, Append(recent, t))
             IN  [ok |-> TRUE,
                  store |-> IF sweep THEN cleanupRateLimit(written, t) ELSE written]

\* The handler's answer to a request the limiter refused (status 0: the
\* handler goes on to the next check).
rateLimitResponse(ok) ==
  IF ok THEN [status |-> 0, retryAfter |-> 0]
        ELSE [status |-> 429, retryAfter |-> retryAfter]

\* swept tells whether the call went on to cleanupRateLimit.
NoCall ==
  [ip |-> "none", time |-> 0, ok |-> TRUE, swept |-> FALSE, status |-> 0,
   retryAfter |-> 0]

InitRate ==
  /\ now = 0
  /\ ticks = 0
  /\ rateLimitStore = << >>
  /\ admitted = [ip \in IPs |-> << >>]
  /\ calls = [ip \in IPs |-> 0]
  /\ lastCall = NoCall
  /\ variant = "none"
  /\ cfg = [none |-> TRUE]
  /\ reqs = << >>
  /\ bucket = {}
  /\ kv = << >>
  /\ month = 1
  /\ kvFailures = 0
  /\ data = NoData
  /\ operationCounts = NoCounts

\* Time passes between two requests.
Tick ==
  /\ ticks < MaxTicks
  /\ \E d \in TickSteps : now' = now + d
  /\ ticks' = ticks + 1
  /\ UNCHANGED <<rateLimitStore, admitted, calls, lastCall>>
  /\ UNCHANGED varsUpload

\* Mutant: the cleanup sweep also runs after a refused call.
RateLimitedRequest_sweepOnRefusal ==
  \E ip \in IPs, sweep \in BOOLEAN :
    /\ calls[ip] < CallBudget(ip)
    /\ LET r == rateLimitCheck(rateLimitStore, ip, now, sweep)
           resp == rateLimitResponse(r.ok)
       IN  /\ rateLimitStore' = IF sweep THEN cleanupRateLimit(r.store, now) ELSE r.store
           /\ admitted' = IF r.ok THEN [admitted EXCEPT ![ip] = Append(@, now)]
                                  ELSE admitted
           /\ lastCall' = [ip |-> ip, time |-> now, ok |-> r.ok,
                           swept |-> r.ok /\ sweep,
                           status |-> resp.status, retryAfter |-> resp.retryAfter]
    /\ calls' = [calls EXCEPT ![ip] = @ + 1]
    /\ UNCHANGED <<now, ticks>>
    /\ UNCHANGED varsUpload

\* A request of identity ip that passed the configuration, method and origin
\* checks reaches the rate limiter.
RateLimitedRequest ==
  \E ip \in IPs, sweep \in BOOLEAN :
    /\ calls[ip] < CallBudget(ip)
    /\ LET r == rateLimitCheck(rateLimitStore, ip, now, sweep)
           resp == rateLimitResponse(r.ok)
       IN  /\ rateLimitStore' = r.store
           /\ admitted' = IF r.ok THEN [admitted EXCEPT ![ip] = Append(@, now)]
                                  ELSE admitted
           /\ lastCall' = [ip |-> ip, time |-> now, ok |-> r.ok,
                           swept |-> r.ok /\ sweep,
                           status |-> resp.status, retryAfter |-> resp.retryAfter]
    /\ calls' = [calls EXCEPT ![ip] = @ + 1]
    /\ UNCHANGED <<now, ticks>>
    /\ UNCHANGED varsUpload

NextRate == Tick \/ RateLimitedRequest

\* Date.now() is the wall clock, which may be set back between two requests
\* (here by one millisecond).
TickBack ==
  /\ ticks < MaxTicks
  /\ now >= 1
  /\ now' = now - 1
  /\ ticks' = ticks + 1
  /\ UNCHANGED <<rateLimitStore, admitted, calls, lastCall>>
  /\ UNCHANGED varsUpload

NextClock == Tick \/ TickBack \/ RateLimitedRequest

\* The rate limiter under a wall clock that is not monotonic.
SpecClock == InitRate /\ [][NextClock]_vars

SpecRate == InitRate /\ [][NextRate]_vars

----------------------------------------------------------------------------
(* Quota limits and the usage endpoint, api/usage.js *)

STORAGE_GB == 10

CLASS_A_OPERATIONS == 1000000

CLASS_B_OPERATIONS == 10000000

\* 1024 * 1024 * 1024 bytes, in KiB
GB == 1024 * 1024

\* FREE_PLAN_LIMITS.STORAGE_GB in KiB
STORAGE_LIMIT == STORAGE_GB * GB

\* USAGE_THRESHOLD * 100
USAGE_THRESHOLD_PCT == 50

criticalThreshold == 80

blockingThreshold == 50

RECURSIVE GCD(_, _)
GCD(a, b) == IF b = 0 THEN a ELSE GCD(b, a % b)

\* parseFloat((current / limit * 100).toFixed(2)), in hundredths of a percent
\* (current * 10000 / limit rounded to the nearest integer; the fraction is
\* reduced first to stay inside 32 bits).
toFixed2(current, limit) ==
  LET g == GCD(10000, limit)
      n == current * (10000 \div g)
      d == limit \div g
  IN  (n + d \div 2) \div d

\* What the analytics backend answers to the two GraphQL queries: an error
\* (network failure, non-OK status, GraphQL errors, malformed data), or the
\* month's figures.
UpstreamError == [kind |-> "error"]

UpstreamOk(storageBytes, classA, classB) ==
  [kind |-> "ok", storageBytes |-> storageBytes,
   classAOperations |-> classA, classBOperations |-> classB]

\* getR2Usage of api/usage.js
getR2Usage_analytics(configured, upstream) ==
  IF ~configured
    THEN [storageBytes |-> 0, classAOperations |-> 0, classBOperations |-> 0,
          error |-> "Missing configuration"]
  ELSE IF upstream.kind = "error"
    THEN [storageBytes |-> 0, classAOperations |-> 0, classBOperations |-> 0,
          error |-> "analytics error"]
  ELSE [storageBytes |-> upstream.storageBytes,
        classAOperations |-> upstream.classAOperations,
        classBOperations |-> upstream.classBOperations,
        error |-> ""]

\* x percent of limit is at or above pct percent
AtLeastPct(current, limit, pct) == current * 100 >= pct * limit

\* x percent of limit is strictly above pct percent
AbovePct(current, limit, pct) == current * 100 > pct * limit

usageWarnings(u) ==
  (IF AtLeastPct(u.storageBytes, STORAGE_LIMIT, criticalThreshold)
     THEN <<"Storage usage">> ELSE << >>)
  \o (IF AtLeastPct(u.classAOperations, CLASS_A_OPERATIONS, criticalThreshold)
        THEN <<"Class A operations">> ELSE << >>)
  \o (IF AtLeastPct(u.classBOperations, CLASS_B_OPERATIONS, criticalThreshold)
        THEN <<"Class B operations">> ELSE << >>)
  \o (IF u.error # "" THEN <<"Analytics error">> ELSE << >>)

\* The 200 response of GET /api/usage (the "usage" object of the body).
usageHandler(configured, upstream) ==
  IF ~configured
    THEN [storage |-> [currentBytes |-> 0, limit |-> STORAGE_GB, percentage |-> 0],
          classA |-> [currentValue |-> 0, limit |-> CLASS_A_OPERATIONS, percentage |-> 0],
          classB |-> [currentValue |-> 0, limit |-> CLASS_B_OPERATIONS, percentage |-> 0],
          warnings |-> <<"Configuration incomplete">>,
          shouldBlockUploads |-> FALSE]
    ELSE LET currentUsage == getR2Usage_analytics(configured, upstream)
         IN  [storage |-> [currentBytes |-> currentUsage.storageBytes,
                           limit |-> STORAGE_GB,
                           percentage |-> toFixed2(currentUsage.storageBytes, STORAGE_LIMIT)],
              classA |-> [currentValue |-> currentUsage.classAOperations,
                          limit |-> CLASS_A_OPERATIONS,
                          percentage |-> toFixed2(currentUsage.classAOperations,
                                                  CLASS_A_OPERATIONS)],
              classB |-> [currentValue |-> currentUsage.classBOperations,
                          limit |-> CLASS_B_OPERATIONS,
                          percentage |-> toFixed2(currentUsage.classBOperations,
                                                  CLASS_B_OPERATIONS)],
              warnings |-> usageWarnings(currentUsage),
              shouldBlockUploads |->
                \/ AtLeastPct(currentUsage.storageBytes, STORAGE_LIMIT, blockingThreshold)
                \/ AtLeastPct(currentUsage.classAOperations, CLASS_A_OPERATIONS,
                              blockingThreshold)
                \/ AtLeastPct(currentUsage.classBOperations, CLASS_B_OPERATIONS,
                              blockingThreshold)]

----------------------------------------------------------------------------
(* Usage client and quota gate of api/upload.js *)

\* How the fetch of /api/usage ends for the upload handler: the fetch throws
\* (network error, 15 s timeout), the status is not OK, the body is not JSON,
\* the JSON body has no usage member, or the body of usageHandler arrives.
FetchFailures == {"network", "timeout", "http_error", "non_json"}

\* The snapshot getCurrentUsage returns from its catch block.
fallbackUsage(message) ==
  [storage |-> [currentBytes |-> (STORAGE_LIMIT * 6) \div 10, limit |-> STORAGE_GB,
                percentage |-> 6000],
   classA |-> [currentValue |-> (CLASS_A_OPERATIONS * 6) \div 10,
               limit |-> CLASS_A_OPERATIONS, percentage |-> 6000],
   classB |-> [currentValue |-> (CLASS_B_OPERATIONS * 6) \div 10,
               limit |-> CLASS_B_OPERATIONS, percentage |-> 6000],
   error |-> message]

\* data.usage of a body without that member
Undefined == [undefined |-> TRUE]

\* Mutant: the catch block returns zero usage, as api/usage.js does.
getCurrentUsage_zeroFallback(reply) ==
  IF reply.kind \in FetchFailures
    THEN [threw |-> FALSE,
          value |-> [storage |-> [currentBytes |-> 0, limit |-> STORAGE_GB, percentage |-> 0],
                     classA |-> [currentValue |-> 0, limit |-> CLASS_A_OPERATIONS,
                                 percentage |-> 0],
                     classB |-> [currentValue |-> 0, limit |-> CLASS_B_OPERATIONS,
                                 percentage |-> 0],
                     error |-> "Usage API unavailable"]]
  ELSE IF reply.kind = "no_usage"
    THEN [threw |-> FALSE, value |-> Undefined]
  ELSE [threw |-> FALSE, value |-> reply.usage]

\* getCurrentUsage: threw tells whether the call raised, value is what it
\* returned.  reply.kind is a member of FetchFailures, "no_usage" or "ok".
getCurrentUsage(reply) ==
  IF reply.kind \in FetchFailures
    THEN [threw |-> FALSE, value |-> fallbackUsage("Usage API unavailable")]
  ELSE IF reply.kind = "no_usage"
    THEN [threw |-> FALSE, value |-> Undefined]
  ELSE [threw |-> FALSE, value |-> reply.usage]

\* currentUsage.shouldBlockUploads, undefined counting as false
shouldBlockUploads(currentUsage) ==
  IF "shouldBlockUploads" \in DOMAIN currentUsage
    THEN currentUsage.shouldBlockUploads ELSE FALSE

\* currentUsage.error, undefined written ""
usageError(currentUsage) ==
  IF "error" \in DOMAIN currentUsage THEN currentUsage.error ELSE ""

exceededList(storage, classA, classB) ==
  (IF storage THEN <<"Storage">> ELSE << >>)
  \o (IF classA THEN <<"Class A Operations">> ELSE << >>)
  \o (IF classB THEN <<"Class B Operations">> ELSE << >>)

\* checkUsageLimits of api/upload.js, applied to the snapshot it fetched
checkUsageLimits(currentUsage, fileSize) ==
  LET projectedStorageBytes == currentUsage.storage.currentBytes + fileSize
      projectedClassA == currentUsage.classA.currentValue + 1
      exceeded ==
        exceededList(AbovePct(projectedStorageBytes, STORAGE_LIMIT, USAGE_THRESHOLD_PCT),
                     AbovePct(projectedClassA, CLASS_A_OPERATIONS, USAGE_THRESHOLD_PCT),
                     currentUsage.classB.percentage > USAGE_THRESHOLD_PCT * 100)
  IN  [canUpload |-> Len(exceeded) = 0,
       exceededLimits |-> exceeded,
       projectedStorageBytes |-> projectedStorageBytes,
       projectedClassA |-> projectedClassA,
       classBValue |-> currentUsage.classB.currentValue,
       error |-> usageError(currentUsage),
       shouldBlockUploads |-> shouldBlockUploads(currentUsage)]

\* Mutant: the handler never refuses for quota.
blocked_never(usageCheck) == FALSE

\* if (!usageCheck.canUpload || usageCheck.shouldBlockUploads)
blocked(usageCheck) == ~usageCheck.canUpload \/ usageCheck.shouldBlockUploads

----------------------------------------------------------------------------
(* Usage client and quota gate of the counter-service upload handler *)

\* How the call of the worker ends for the caller: the fetch throws, the
\* worker answers a non-OK status, the body is not JSON, or the body arrives.
WorkerFailures == {"network", "http_error", "non_json"}

\* getR2Usage of the counter-service handler.  reply.kind is "unconfigured"
\* (no CF_WORKER_URL, no fetch is made), a member of WorkerFailures, or "ok".
getR2Usage(reply) ==
  IF reply.kind = "unconfigured"
    THEN [threw |-> FALSE,
          value |-> [storageBytes |-> 0, classAOperations |-> 0, classBOperations |-> 0]]
  ELSE IF reply.kind \in WorkerFailures
    THEN [threw |-> FALSE,
          value |-> [storageBytes |-> (STORAGE_LIMIT * 4) \div 10,
                     classAOperations |-> (CLASS_A_OPERATIONS * 4) \div 10,
                     classBOperations |-> (CLASS_B_OPERATIONS * 4) \div 10,
                     error |-> "Worker API unavailable"]]
  ELSE [threw |-> FALSE,
        value |-> [storageBytes |-> reply.storageBytes,
                   classAOperations |-> reply.classAOperations,
                   classBOperations |-> reply.classBOperations]]

\* checkUsageLimits of the counter-service handler
checkUsageLimits_counter(currentUsage, fileSize) ==
  LET projectedStorageBytes == currentUsage.storageBytes + fileSize
      projectedClassA == currentUsage.classAOperations + 1
      exceeded ==
        exceededList(AbovePct(projectedStorageBytes, STORAGE_LIMIT, USAGE_THRESHOLD_PCT),
                     AbovePct(projectedClassA, CLASS_A_OPERATIONS, USAGE_THRESHOLD_PCT),
                     AbovePct(currentUsage.classBOperations, CLASS_B_OPERATIONS,
                              USAGE_THRESHOLD_PCT))
  IN  [canUpload |-> Len(exceeded) = 0,
       exceededLimits |-> exceeded,
       projectedStorageBytes |-> projectedStorageBytes,
       projectedClassA |-> projectedClassA,
       classBValue |-> currentUsage.classBOperations,
       error |-> usageError(currentUsage)]

\* if (!usageCheck.canUpload), counter-service handler
blocked_counter(usageCheck) == ~usageCheck.canUpload

\* parseFloat((current / limit * 100).toFixed(1)), in tenths of a percent
toFixed1(current, limit) ==
  LET g == GCD(1000, limit)
      n == current * (1000 \div g)
      d == limit \div g
  IN  (n + d \div 2) \div d

\* getR2Usage of the counter-service usage endpoint: as getR2Usage of the
\* upload handler, but its catch block returns zero usage.
getR2Usage_page(reply) ==
  IF reply.kind = "unconfigured"
    THEN [storageBytes |-> 0, classAOperations |-> 0, classBOperations |-> 0,
          error |-> ""]
  ELSE IF reply.kind \in WorkerFailures
    THEN [storageBytes |-> 0, classAOperations |-> 0, classBOperations |-> 0,
          error |-> "Worker API unavailable"]
  ELSE [storageBytes |-> reply.storageBytes,
        classAOperations |-> reply.classAOperations,
        classBOperations |-> reply.classBOperations,
        error |-> ""]

\* The 200 response of GET /api/usage of the counter-service variant: the
\* usage object and, of the debug object, hasError.
usageHandler_page(currentUsage) ==
  [storage |-> [limit |-> STORAGE_GB,
                percentage |-> toFixed1(currentUsage.storageBytes, STORAGE_LIMIT)],
   classA |-> [currentValue |-> currentUsage.classAOperations,
               limit |-> CLASS_A_OPERATIONS,
               percentage |-> toFixed1(currentUsage.classAOperations, CLASS_A_OPERATIONS)],
   classB |-> [currentValue |-> currentUsage.classBOperations,
               limit |-> CLASS_B_OPERATIONS,
               percentage |-> toFixed1(currentUsage.classBOperations, CLASS_B_OPERATIONS)],
   hasError |-> currentUsage.error # ""]

----------------------------------------------------------------------------
(* Content validation of api/upload.js *)

ALLOWED_MIME_TYPES == {"image/jpeg", "image/jpg", "image/png", "image/gif", "image/webp"}

MagicTypes == {"image/jpeg", "image/png", "image/gif", "image/webp"}

MAGIC_NUMBERS ==
  [type \in MagicTypes |->
     CASE type = "image/jpeg" -> <<255, 216, 255>>
       [] type = "image/png"  -> <<137, 80, 78, 71>>
       [] type = "image/gif"  -> <<71, 73, 70>>
       [] type = "image/webp" -> <<82, 73, 70, 70>>]

\* 10 * 1024 * 1024 bytes, in KiB
MAX_FILE_SIZE == 10 * 1024

\* 12 * 1024 * 1024 bytes, in KiB
MAX_REQUEST_SIZE == 12 * 1024

\* formidable's maxFileSize option, 10 * 1024 * 1024 bytes, in KiB: form.parse
\* rejects when a file part grows beyond it.
maxFileSize == 10 * 1024

\* Mutant: any registered signature is accepted, whatever type is claimed.
validateFileType_anyType(buffer, mimetype) ==
  \E type \in MagicTypes :
    \A index \in 1..Len(MAGIC_NUMBERS[type]) :
      index <= Len(buffer) /\ buffer[index] = MAGIC_NUMBERS[type][index]

validateFileType(buffer, mimetype) ==
  \E type \in MagicTypes :
    /\ type = mimetype \/ (type = "image/jpeg" /\ mimetype = "image/jpg")
    /\ \A index \in 1..Len(MAGIC_NUMBERS[type]) :
         index <= Len(buffer) /\ buffer[index] = MAGIC_NUMBERS[type][index]

\* validateFile: the message of the error it throws, "" when it returns true.
\* readOk is the outcome of fs.readFileSync.
\* Mutant: validateFile without the signature check.
validateFile_noTypeCheck(file, readOk) ==
  IF ~readOk THEN "Failed to read uploaded file"
  ELSE IF file.size = 0 THEN "Empty file not allowed"
  ELSE IF file.size > MAX_FILE_SIZE THEN "File too large"
  ELSE IF file.suspicious THEN "Suspicious file content detected"
  ELSE ""

validateFile(file, readOk) ==
  IF ~readOk THEN "Failed to read uploaded file"
  ELSE IF file.size = 0 THEN "Empty file not allowed"
  ELSE IF ~validateFileType(file.head, file.mimetype)
    THEN "File type validation failed"
  ELSE IF file.size > MAX_FILE_SIZE THEN "File too large"
  ELSE IF file.suspicious THEN "Suspicious file content detected"
  ELSE ""

\* Mutant: every extension is accepted.
validExtensions_any(mimetype, ext) == TRUE

\* validExtensions[file.mimetype]?.includes(fileExtension)
validExtensions(mimetype, ext) ==
  \/ mimetype = "image/jpeg" /\ ext \in {"jpg", "jpeg"}
  \/ mimetype = "image/png" /\ ext = "png"
  \/ mimetype = "image/gif" /\ ext = "gif"
  \/ mimetype = "image/webp" /\ ext = "webp"

\* The settings of the blob store the handler requires.
requiredEnvVars ==
  {"R2_ENDPOINT", "R2_ACCESS_KEY", "R2_SECRET_KEY", "R2_BUCKET", "R2_CUSTOM_DOMAIN"}

\* Mutant: no setting is ever reported missing.
missingVars_none(env) == {}

\* requiredEnvVars.filter((varName) => !process.env[varName]); env is the set
\* of the settings that have a value.
missingVars(env) == requiredEnvVars \ env

\* The origins the deployment allows: ALLOWED_ORIGIN and the two localhost ones.
allowedOrigins == {"https://app.example", "http://localhost:3000", "https://localhost:3000"}

\* Mutant: a request without Origin header is rejected too.
isValidOrigin_strict(origin) == origin \in allowedOrigins

\* isValidOrigin; "" is a request without Origin header
isValidOrigin(origin) == origin = "" \/ origin \in allowedOrigins

----------------------------------------------------------------------------
(* The inputs the model draws *)

Reqs == {1, 2}

Methods == {"POST", "GET"}

Origins == {"", "https://app.example", "https://evil.example"}

\* Who sends the requests the model draws: the first identity without
\* Origin header or from a foreign origin, the second from the allowed one.
Callers ==
  {c \in [ip : IPs, origin : Origins] :
     \/ c.ip = "ip1" /\ c.origin \in {"", "https://evil.example"}
     \/ c.ip = "ip2" /\ c.origin = "https://app.example"}

\* declared content-length, in KiB
ContentLengths == {0, MAX_REQUEST_SIZE, MAX_REQUEST_SIZE + 1}

\* file sizes, in KiB
FileSizes == {1, 2}

File(mimetype, head, size, suspicious, ext) ==
  [mimetype |-> mimetype, head |-> head, size |-> size,
   suspicious |-> suspicious, ext |-> ext]

JpegHead == <<255, 216, 255, 224>>

PngHead == <<137, 80, 78, 71>>

\* file.originalFilename of a file part sent without a filename: null
NoFilename == "(null)"

\* The uploads the model draws: well-formed JPEG and PNG files, a JPEG
\* declared image/jpg, a PNG declared image/jpeg, a truncated signature, a
\* JPEG carrying markup, a JPEG named .exe, a JPEG without filename, and a
\* type outside the allow-list; and a well-formed JPEG of one KiB more than
\* ten MiB.
Files ==
  {File("image/jpeg", JpegHead, size, FALSE, "jpg") : size \in FileSizes}
  \cup {File("image/png", PngHead, 1, FALSE, "png"),
        File("image/jpeg", JpegHead, 10 * 1024 + 1, FALSE, "jpg"),
        File("image/jpeg", JpegHead, 1, FALSE, NoFilename),
        File("image/jpg", JpegHead, 1, FALSE, "jpg"),
        File("image/jpeg", PngHead, 1, FALSE, "jpg"),
        File("image/jpeg", <<255, 216>>, 1, FALSE, "jpg"),
        File("image/jpeg", JpegHead, 1, TRUE, "jpg"),
        File("image/jpeg", JpegHead, 1, FALSE, "exe"),
        File("application/pdf", <<37, 80, 68, 70>>, 1, FALSE, "pdf")}

\* The month's figures the analytics backend may report: nothing used, one
\* dimension just below or at half of its limit, class B just above it, and
\* all three at or above half at once.
Upstreams ==
  {UpstreamError,
   UpstreamOk(0, 0, 0),
   UpstreamOk(STORAGE_LIMIT \div 2 - 1, 0, 0),
   UpstreamOk(0, CLASS_A_OPERATIONS \div 2 - 1, 0),
   UpstreamOk(0, 0, CLASS_B_OPERATIONS \div 2),
   UpstreamOk(0, 0, CLASS_B_OPERATIONS \div 2 + 1),
   UpstreamOk(STORAGE_LIMIT \div 2, CLASS_A_OPERATIONS \div 2, CLASS_B_OPERATIONS \div 2 + 1)}

\* What the fetch of /api/usage can bring back under configuration c.
UsageReplies(c) ==
  {[kind |-> k, source |-> "fetch_failed"] : k \in FetchFailures}
  \cup {[kind |-> "no_usage", source |-> "no_usage"]}
  \cup {[kind |-> "ok",
         source |-> IF ~c.analytics THEN "analytics_unconfigured"
                    ELSE IF up.kind = "error" THEN "analytics_error" ELSE "up",
         usage |-> usageHandler(c.analytics, up)] : up \in Upstreams}

----------------------------------------------------------------------------
(* The upload handler of api/upload.js *)

NoFile == [mimetype |-> "", head |-> << >>, size |-> 0, suspicious |-> FALSE, ext |-> ""]

\* A KV key without value
Null == [null |-> TRUE]

NoResponse ==
  [status |-> 0, success |-> FALSE, storageBytes |-> 0,
   classAOperations |-> 0, classBOperations |-> 0]

\* A call of the worker that has not been made.  authorized tells whether the
\* Authorization header of the call is exactly "Bearer <API_SECRET>".
NoWorkerCall ==
  [pc |-> "none", route |-> "", monthKey |-> 0, authorized |-> FALSE,
   usage |-> Null, storage |-> Null, fileSize |-> 0, response |-> NoResponse]

NoUsage == [none |-> TRUE]

NoCheck == [none |-> TRUE]

\* The object key crypto.randomUUID() + "." + fileExtension.  The UUID drawn
\* for a request is written as the number of the request: it is fresh for
\* every call.
Filename(uuid, fileExtension) == [uuid |-> uuid, ext |-> fileExtension]

NoKey == Filename(0, "")

\* The url member of the 200 response, as the list of its path segments:
\* https://<R2_CUSTOM_DOMAIN>/<filename> in api/upload.js
publicUrl(filename) == <<filename>>

\* https://<R2_CUSTOM_DOMAIN>/<R2_BUCKET>/<filename> in the counter-service
\* handler
publicUrl_counter(filename) == <<"R2_BUCKET", filename>>

\* A request before the handler runs.  status 0: no response sent yet.
\* temp is the temporary file formidable wrote: "none", "present", "removed",
\* or "unlink_failed" when fs.unlinkSync was called on it and threw.
\* put is "none", "issued", "ok" or "failed"; incr likewise for the usage
\* increment.  source tells how the usage source behaved when the quota
\* snapshot was fetched.  url is the url member of the response body, the
\* empty list when the body has none.  reads counts the handler's calls of
\* fs.readFileSync on the temporary file; compared tells whether
\* validateFileType was called on its bytes.
NoReq ==
  [pc |-> "idle", status |-> 0, reason |-> "", ip |-> "", method |-> "",
   origin |-> "", file |-> NoFile,
   temp |-> "none", reads |-> 0, compared |-> FALSE, source |-> "none", usage |-> NoUsage, check |-> NoCheck,
   put |-> "none", key |-> NoKey, url |-> << >>, incr |-> "none",
   w |-> NoWorkerCall]

\* res.status(status).json(...) and return
Respond(req, status, reason) ==
  [req EXCEPT !.pc = "done", !.status = status, !.reason = reason]

\* try { fs.unlinkSync(file.filepath) } catch { log }: the file is removed
\* unless the unlink fails.
Unlink(req, unlinkOk) ==
  [req EXCEPT !.temp = IF unlinkOk THEN "removed" ELSE "unlink_failed"]

\* Mutant: the rate limiter is called before the origin is looked at.
Receive_rateLimitFirst(r) ==
  /\ variant = "analytics"
  /\ reqs[r].pc = "idle"
  /\ \E method \in Methods, caller \in Callers,
        contentLength \in ContentLengths, sweep \in BOOLEAN :
       LET ip == caller.ip
           origin == caller.origin
           req == [reqs[r] EXCEPT !.ip = ip, !.method = method, !.origin = origin]
           rl == rateLimitCheck(rateLimitStore, ip, now, sweep)
       IN  IF missingVars(cfg.env) # {}
             THEN /\ reqs' = [reqs EXCEPT ![r] = Respond(req, 500, "ENV_VALIDATION")]
                  /\ UNCHANGED <<rateLimitStore, admitted>>
           ELSE IF method # "POST"
             THEN /\ reqs' = [reqs EXCEPT ![r] = Respond(req, 405, "Method Not Allowed")]
                  /\ UNCHANGED <<rateLimitStore, admitted>>
           ELSE /\ rateLimitStore' = rl.store
                /\ admitted' = IF rl.ok THEN [admitted EXCEPT ![ip] = Append(@, now)]
                                        ELSE admitted
                /\ reqs' = [reqs EXCEPT ![r] =
                     IF ~rl.ok THEN Respond(req, 429, "Rate limit exceeded")
                     ELSE IF ~isValidOrigin(origin)
                       THEN Respond(req, 403, "Invalid origin")
                     ELSE IF contentLength > MAX_REQUEST_SIZE
                       THEN Respond(req, 413, "Request too large")
                     ELSE [req EXCEPT !.pc = "parsing"]]
  /\ UNCHANGED <<now, ticks, calls, lastCall, varsOps, variant, cfg, bucket, kv, month, kvFailures>>

\* Lines 363-428: environment, method, origin, rate limit and content-length
\* checks, up to the start of form.parse.
Receive(r) ==
  /\ variant = "analytics"
  /\ reqs[r].pc = "idle"
  /\ \E method \in Methods, caller \in Callers,
        contentLength \in ContentLengths, sweep \in BOOLEAN :
       LET ip == caller.ip
           origin == caller.origin
           req == [reqs[r] EXCEPT !.ip = ip, !.method = method, !.origin = origin]
           rl == rateLimitCheck(rateLimitStore, ip, now, sweep)
       IN  IF missingVars(cfg.env) # {}
             THEN /\ reqs' = [reqs EXCEPT ![r] = Respond(req, 500, "ENV_VALIDATION")]
                  /\ UNCHANGED <<rateLimitStore, admitted>>
           ELSE IF method # "POST"
             THEN /\ reqs' = [reqs EXCEPT ![r] = Respond(req, 405, "Method Not Allowed")]
                  /\ UNCHANGED <<rateLimitStore, admitted>>
           ELSE IF ~isValidOrigin(origin)
             THEN /\ reqs' = [reqs EXCEPT ![r] = Respond(req, 403, "Invalid origin")]
                  /\ UNCHANGED <<rateLimitStore, admitted>>
           ELSE /\ rateLimitStore' = rl.store
                /\ admitted' = IF rl.ok THEN [admitted EXCEPT ![ip] = Append(@, now)]
                                        ELSE admitted
                /\ reqs' = [reqs EXCEPT ![r] =
                     IF ~rl.ok THEN Respond(req, 429, "Rate limit exceeded")
                     ELSE IF contentLength > MAX_REQUEST_SIZE
                       THEN Respond(req, 413, "Request too large")
                     ELSE [req EXCEPT !.pc = "parsing"]]
  /\ UNCHANGED <<now, ticks, calls, lastCall, varsOps, variant, cfg, bucket, kv, month, kvFailures>>

\* Mutant: validateFile runs before the media type is looked up in the
\* allow-list.
checkFile_validateFirst(req, readOk, unlinkOk) ==
  LET message == validateFile(req.file, readOk)
      read == [req EXCEPT !.reads = @ + 1,
                          !.compared = readOk /\ req.file.size > 0]
  IN  IF message # ""
        THEN Respond(Unlink(read, unlinkOk), 400, message)
      ELSE IF req.file.mimetype \notin ALLOWED_MIME_TYPES
        THEN Respond(Unlink(read, unlinkOk), 400, "Invalid file type")
      ELSE [read EXCEPT !.pc = "usage"]

\* Lines 466-492: the MIME allow-list, then validateFile, which reads the
\* temporary file and, unless it is empty, compares its leading bytes with
\* the signatures of the claimed type.
checkFile(req, readOk, unlinkOk) ==
  IF req.file.mimetype \notin ALLOWED_MIME_TYPES
    THEN Respond(Unlink(req, unlinkOk), 400, "Invalid file type")
    ELSE LET message == validateFile(req.file, readOk)
             read == [req EXCEPT !.reads = @ + 1,
                                 !.compared = readOk /\ req.file.size > 0]
         IN  IF message # ""
               THEN Respond(Unlink(read, unlinkOk), 400, message)
               ELSE [read EXCEPT !.pc = "usage"]

\* Mutant: neither form.parse nor validateFile limits the size of the file.
Parsed_noSizeLimit(r) ==
  /\ variant = "analytics"
  /\ reqs[r].pc = "parsing"
  /\ \/ reqs' = [reqs EXCEPT ![r] = Respond(@, 400, "FORM_PARSING")]
     \/ reqs' = [reqs EXCEPT ![r] = Respond(@, 400, "No file uploaded")]
     \/ \E file \in Files, readOk \in BOOLEAN, unlinkOk \in BOOLEAN :
          LET req == [reqs[r] EXCEPT !.file = file, !.temp = "present"]
              small == [req EXCEPT !.file.size = 1]
          IN  reqs' = [reqs EXCEPT ![r] =
                IF file.size > MAX_FILE_SIZE
                  THEN [checkFile(small, readOk, unlinkOk) EXCEPT !.file = file]
                  ELSE checkFile(req, readOk, unlinkOk)]
  /\ UNCHANGED <<varsRate, varsOps, variant, cfg, bucket, kv, month, kvFailures>>

\* Lines 430-492: form.parse has ended; file presence, MIME allow-list and
\* validateFile, up to the start of the usage fetch.  form.parse rejects a
\* malformed body and a file part beyond maxFileSize; the handler then holds
\* no file.
Parsed(r) ==
  /\ variant = "analytics"
  /\ reqs[r].pc = "parsing"
  /\ \/ reqs' = [reqs EXCEPT ![r] = Respond(@, 400, "FORM_PARSING")]
     \/ reqs' = [reqs EXCEPT ![r] = Respond(@, 400, "No file uploaded")]
     \/ \E file \in Files, readOk \in BOOLEAN, unlinkOk \in BOOLEAN :
          LET req == [reqs[r] EXCEPT !.file = file, !.temp = "present"]
          IN  reqs' = [reqs EXCEPT ![r] =
                IF file.size > maxFileSize
                  THEN Respond(reqs[r], 400, "FORM_PARSING maxFileSize exceeded")
                  ELSE checkFile(req, readOk, unlinkOk)]
  /\ UNCHANGED <<varsRate, varsOps, variant, cfg, bucket, kv, month, kvFailures>>

\* Lines 494-604: the usage fetch has ended; checkUsageLimits, the quota
\* decision, the extension check and the read of the file, up to the start
\* of the put.  file.originalFilename.split of a null filename throws into
\* the handler's final catch block (lines 684-704), whose cleanup looks for
\* req.files, which the handler never assigns.
UsageReplied(r) ==
  /\ variant = "analytics"
  /\ reqs[r].pc = "usage"
  /\ \E reply \in UsageReplies(cfg), readOk \in BOOLEAN, unlinkOk \in BOOLEAN :
       LET currentUsage == getCurrentUsage(reply)
           req == [reqs[r] EXCEPT !.source = reply.source, !.usage = currentUsage]
       IN  IF currentUsage.threw \/ currentUsage.value = Undefined
             THEN reqs' = [reqs EXCEPT ![r] =
                             Respond(Unlink(req, unlinkOk), 500, "USAGE_CHECK")]
             ELSE LET usageCheck == checkUsageLimits(currentUsage.value, req.file.size)
                      checked == [req EXCEPT !.check = usageCheck]
                  IN  reqs' = [reqs EXCEPT ![r] =
                        IF blocked(usageCheck)
                          THEN Respond(Unlink(checked, unlinkOk), 429,
                                       "Upload blocked due to usage limits")
                        ELSE IF req.file.ext = NoFilename
                          THEN Respond(checked, 500, "UNHANDLED_ERROR")
                        ELSE IF ~validExtensions(req.file.mimetype, req.file.ext)
                          THEN Respond(Unlink(checked, unlinkOk), 400,
                                       "File extension doesn't match content type")
                        ELSE IF ~readOk
                          THEN Respond(Unlink([checked EXCEPT !.reads = @ + 1], unlinkOk),
                                       500, "FILE_READ")
                        ELSE [checked EXCEPT !.pc = "putting", !.put = "issued",
                                             !.reads = @ + 1,
                                             !.key = Filename(r, req.file.ext)]]
  /\ UNCHANGED <<varsRate, varsOps, variant, cfg, bucket, kv, month, kvFailures>>

\* Lines 588-630: s3.send has ended.
PutDone(r) ==
  /\ variant = "analytics"
  /\ reqs[r].pc = "putting"
  /\ \E putOk \in BOOLEAN, unlinkOk \in BOOLEAN :
       IF putOk
         THEN /\ bucket' = bucket \cup {[req |-> r, key |-> reqs[r].key,
                                         size |-> reqs[r].file.size]}
              /\ reqs' = [reqs EXCEPT ![r] =
                            [Unlink(@, unlinkOk) EXCEPT !.pc = "refetch", !.put = "ok"]]
         ELSE /\ reqs' = [reqs EXCEPT ![r] =
                            Respond([Unlink(@, unlinkOk) EXCEPT !.put = "failed"],
                                    500, "S3_UPLOAD")]
              /\ UNCHANGED bucket
  /\ UNCHANGED <<varsRate, varsOps, variant, cfg, kv, month, kvFailures>>

\* Lines 632-683: the one-second wait and the second usage fetch have ended;
\* whatever that fetch returned, the answer is 200 with the object's URL.
Refetched(r) ==
  /\ variant = "analytics"
  /\ reqs[r].pc = "refetch"
  /\ \E reply \in UsageReplies(cfg) :
       LET updatedUsage == getCurrentUsage(reply)
       IN  reqs' = [reqs EXCEPT ![r] =
                      IF updatedUsage.threw
                        THEN Respond(@, 500, "UNHANDLED_ERROR")
                        ELSE Respond([@ EXCEPT !.url = publicUrl(reqs[r].key)],
                                     200, "Upload successful")]
  /\ UNCHANGED <<varsRate, varsOps, variant, cfg, bucket, kv, month, kvFailures>>

NextAnalytics ==
  \E r \in Reqs : Receive(r) \/ Parsed(r) \/ UsageReplied(r) \/ PutDone(r) \/ Refetched(r)

\* The environments the model draws: every required setting present, the
\* endpoint or the public domain missing, and none set.
Envs ==
  {requiredEnvVars, requiredEnvVars \ {"R2_ENDPOINT"},
   requiredEnvVars \ {"R2_CUSTOM_DOMAIN"}, {}}

\* An identity whose 20 attempts of this very millisecond are on record.
FullStore == [ip \in {"ip2"} |-> [i \in 1..maxAttempts |-> 0]]

\* An identity with one attempt left.
NearlyFullStore == [ip \in {"ip2"} |-> [i \in 1..(maxAttempts - 1) |-> 0]]

\* The tables the handler may find when the requests of the model arrive.
Stores == {<< >>, FullStore, NearlyFullStore}

InitAnalytics ==
  /\ variant = "analytics"
  /\ cfg \in [env : Envs, analytics : BOOLEAN]
  /\ now = 0
  /\ ticks = 0
  /\ rateLimitStore \in Stores
  /\ admitted = [ip \in IPs |-> storeGet(rateLimitStore, ip)]
  /\ calls = [ip \in IPs |-> 0]
  /\ lastCall = NoCall
  /\ reqs = [r \in Reqs |-> NoReq]
  /\ bucket = {}
  /\ kv = << >>
  /\ month = 1
  /\ kvFailures = 0
  /\ data = NoData
  /\ operationCounts = NoCounts

----------------------------------------------------------------------------
(* The usage-tracker worker and its KV namespace *)

\* usage:<month>, storage:<month> and storage:latest (written month 0)
KVKeys == {<<"usage", m>> : m \in 1..MaxMonth} \cup {<<"storage", m>> : m \in 0..MaxMonth}

UsageVal(classA, classB) == [classAOperations |-> classA, classBOperations |-> classB]

StorageVal(bytes) == [bytes |-> bytes]

\* The call was skipped because the worker is not configured.
SkippedCall == [NoWorkerCall EXCEPT !.pc = "skipped"]

\* The fetch threw before the worker ran.
UnreachedCall == [NoWorkerCall EXCEPT !.pc = "unreached"]

WorkerReply(w, response) == [w EXCEPT !.pc = "replied", !.response = response]

\* The worker's catch block: 500
WorkerError(w) == WorkerReply(w, [NoResponse EXCEPT !.status = 500])

\* GET /usage starts: monthKey is fixed, ensureCurrentMonth is entered.
UsageCall(m) ==
  [NoWorkerCall EXCEPT !.pc = "ensure_get", !.route = "usage", !.monthKey = m]

\* Mutant: POST /increment without the comparison of the Authorization header.
IncrementCall_noAuth(m, fileSize, authorized) ==
  [NoWorkerCall EXCEPT !.pc = "ensure_get", !.route = "increment", !.monthKey = m,
                       !.authorized = authorized, !.fileSize = fileSize]

\* POST /increment with operation classA starts: the Authorization header is
\* compared with the secret, then ensureCurrentMonth is entered.
IncrementCall(m, fileSize, authorized) ==
  LET w == [NoWorkerCall EXCEPT !.route = "increment", !.monthKey = m,
                                !.authorized = authorized, !.fileSize = fileSize]
  IN  IF ~authorized THEN WorkerReply(w, [NoResponse EXCEPT !.status = 401])
      ELSE [w EXCEPT !.pc = "ensure_get"]

\* POST /reset starts: the Authorization header is compared with the secret,
\* then the three keys are written.
ResetCall(m, authorized) ==
  LET w == [NoWorkerCall EXCEPT !.route = "reset", !.monthKey = m,
                                !.authorized = authorized]
  IN  IF ~authorized THEN WorkerReply(w, [NoResponse EXCEPT !.status = 401])
      ELSE [w EXCEPT !.pc = "reset_put_usage"]

\* ensureCurrentMonth has returned (also from its catch block).
AfterEnsure(w) ==
  [w EXCEPT !.pc = IF w.route = "usage" THEN "read_usage" ELSE "incr_get_usage"]

OrZeroUsage(v) == IF v = Null THEN UsageVal(0, 0) ELSE v

OrZeroStorage(v) == IF v = Null THEN StorageVal(0) ELSE v

\* The JSON answer of GET /usage
UsageReply(w) ==
  WorkerReply(w, [NoResponse EXCEPT
                    !.status = 200,
                    !.storageBytes = OrZeroStorage(w.storage).bytes,
                    !.classAOperations = OrZeroUsage(w.usage).classAOperations,
                    !.classBOperations = OrZeroUsage(w.usage).classBOperations])

\* The JSON answer of POST /increment
IncrementReply(w) ==
  WorkerReply(w, [NoResponse EXCEPT !.status = 200, !.success = TRUE])

\* The JSON answer of POST /reset
ResetReply(w) ==
  WorkerReply(w, [NoResponse EXCEPT !.status = 200, !.success = TRUE])

\* Mutant: the increment counts the operation twice.
incrementedUsage_twice(usage) == [usage EXCEPT !.classAOperations = @ + 2]

\* usage.classAOperations += 1 (the operation is classA)
incrementedUsage(usage) == [usage EXCEPT !.classAOperations = @ + 1]

\* One KV operation of a worker invocation, and the code up to the next one.
\* kvOk tells whether the operation succeeds; store is the namespace.
workerStep(w, store, kvOk) ==
  LET usageKey == <<"usage", w.monthKey>>
      storageKey == <<"storage", w.monthKey>>
      latestKey == <<"storage", 0>>
      same == [w |-> w, kv |-> store]
  IN  CASE w.pc = "ensure_get" ->
             IF kvOk /\ store[usageKey] = Null
               THEN [same EXCEPT !.w = [w EXCEPT !.pc = "ensure_put_usage"]]
               ELSE [same EXCEPT !.w = AfterEnsure(w)]
        [] w.pc = "ensure_put_usage" ->
             IF kvOk
               THEN [w |-> [w EXCEPT !.pc = "ensure_put_storage"],
                     kv |-> [store EXCEPT ![usageKey] = UsageVal(0, 0)]]
               ELSE [same EXCEPT !.w = AfterEnsure(w)]
        [] w.pc = "ensure_put_storage" ->
             IF kvOk
               THEN [w |-> AfterEnsure(w),
                     kv |-> [store EXCEPT ![storageKey] = StorageVal(0)]]
               ELSE [same EXCEPT !.w = AfterEnsure(w)]
        [] ~kvOk -> [same EXCEPT !.w = WorkerError(w)]
        [] w.pc = "read_usage" ->
             [same EXCEPT !.w = [w EXCEPT !.pc = "read_storage",
                                          !.usage = store[usageKey]]]
        [] w.pc = "read_storage" ->
             IF store[storageKey] # Null
               THEN [same EXCEPT !.w = UsageReply([w EXCEPT !.storage = store[storageKey]])]
               ELSE [same EXCEPT !.w = [w EXCEPT !.pc = "read_latest"]]
        [] w.pc = "read_latest" ->
             [same EXCEPT !.w = UsageReply([w EXCEPT !.storage = store[latestKey]])]
        [] w.pc = "incr_get_usage" ->
             LET usage == OrZeroUsage(store[usageKey])
             IN  [same EXCEPT !.w =
                    [w EXCEPT !.pc = "incr_put_usage",
                              !.usage = incrementedUsage(usage)]]
        [] w.pc = "incr_put_usage" ->
             [w |-> IF w.fileSize # 0 THEN [w EXCEPT !.pc = "incr_get_storage"]
                                      ELSE IncrementReply(w),
              kv |-> [store EXCEPT ![usageKey] = w.usage]]
        [] w.pc = "incr_get_storage" ->
             IF store[storageKey] # Null
               THEN [same EXCEPT !.w =
                       [w EXCEPT !.pc = "incr_put_storage",
                                 !.storage = StorageVal(store[storageKey].bytes + w.fileSize)]]
               ELSE [same EXCEPT !.w = [w EXCEPT !.pc = "incr_get_latest"]]
        [] w.pc = "incr_get_latest" ->
             [same EXCEPT !.w =
                [w EXCEPT !.pc = "incr_put_storage",
                          !.storage = StorageVal(OrZeroStorage(store[latestKey]).bytes
                                                   + w.fileSize)]]
        [] w.pc = "incr_put_storage" ->
             [w |-> [w EXCEPT !.pc = "incr_put_latest"],
              kv |-> [store EXCEPT ![storageKey] = w.storage]]
        [] w.pc = "incr_put_latest" ->
             [w |-> IncrementReply(w),
              kv |-> [store EXCEPT ![latestKey] = w.storage]]
        [] w.pc = "reset_put_usage" ->
             [w |-> [w EXCEPT !.pc = "reset_put_storage"],
              kv |-> [store EXCEPT ![usageKey] = UsageVal(0, 0)]]
        [] w.pc = "reset_put_storage" ->
             [w |-> [w EXCEPT !.pc = "reset_put_latest"],
              kv |-> [store EXCEPT ![storageKey] = StorageVal(0)]]
        [] w.pc = "reset_put_latest" ->
             [w |-> ResetReply(w),
              kv |-> [store EXCEPT ![latestKey] = StorageVal(0)]]

WorkerRunning == {"ensure_get", "ensure_put_usage", "ensure_put_storage",
                  "read_usage", "read_storage", "read_latest",
                  "incr_get_usage", "incr_put_usage", "incr_get_storage",
                  "incr_get_latest", "incr_put_storage", "incr_put_latest",
                  "reset_put_usage", "reset_put_storage", "reset_put_latest"}

----------------------------------------------------------------------------
(* The upload handler of the counter-service variant *)

\* The uploads the counter-service model draws for request r: this handler
\* looks at the declared type and the size only, and copies the extension of
\* the filename into the key, so the first request sends its JPEG as a.jpg
\* and the second one as a.exe.
CounterFiles(r) ==
  {File("image/jpeg", JpegHead, 1, FALSE, IF r = 1 THEN "jpg" ELSE "exe"),
   File("application/pdf", <<37, 80, 68, 70>>, 1, FALSE, "pdf")}

\* The catch block of the handler: 500
Throw(req) == Respond(req, 500, "Upload failed")

\* fs.unlinkSync(file.filepath) outside any try block of its own: a failing
\* unlink ends the request in the catch block; otherwise the request ends
\* with the given response.
UnlinkThenRespond(req, unlinkOk, status, reason) ==
  IF unlinkOk THEN Respond([req EXCEPT !.temp = "removed"], status, reason)
              ELSE Throw([req EXCEPT !.temp = "unlink_failed"])

\* What the handler's fetch makes of the worker's call: the fetch throws when
\* the call did not reach the worker or the answer is lost; otherwise the
\* status and the body decide.
workerReplyKind(w, delivered) ==
  IF w.pc = "skipped" THEN "unconfigured"
  ELSE IF w.pc = "unreached" \/ ~delivered THEN "network"
  ELSE IF w.response.status # 200 THEN "http_error"
  ELSE "ok"

CReceive(r) ==
  /\ variant = "counter"
  /\ reqs[r].pc = "idle"
  /\ \E method \in Methods :
       reqs' = [reqs EXCEPT ![r] =
                  IF method # "POST" THEN Respond(@, 405, "Method Not Allowed")
                                     ELSE [@ EXCEPT !.pc = "parsing"]]
  /\ UNCHANGED <<varsRate, varsOps, variant, cfg, bucket, kv, month, kvFailures>>

\* GET /api/usage of the counter-service variant arrives: getR2Usage calls
\* the worker's GET /usage unless CF_WORKER_URL is missing.
CPageReceive(r) ==
  /\ variant = "counter"
  /\ reqs[r].pc = "idle"
  /\ \E reached \in BOOLEAN :
       reqs' = [reqs EXCEPT ![r] =
                  [@ EXCEPT !.pc = "page",
                            !.w = IF ~cfg.workerUrl THEN SkippedCall
                                  ELSE IF ~reached THEN UnreachedCall
                                  ELSE UsageCall(month)]]
  /\ UNCHANGED <<varsRate, varsOps, variant, cfg, bucket, kv, month, kvFailures>>

\* getR2Usage of the usage endpoint has returned: the handler answers 200.
CPageServed(r) ==
  /\ variant = "counter"
  /\ reqs[r].pc = "page"
  /\ reqs[r].w.pc \in {"replied", "skipped", "unreached"}
  /\ \E delivered \in BOOLEAN, jsonOk \in BOOLEAN :
       LET w == reqs[r].w
           kind == IF workerReplyKind(w, delivered) = "ok" /\ ~jsonOk
                     THEN "non_json" ELSE workerReplyKind(w, delivered)
           reply == [kind |-> kind,
                     storageBytes |-> w.response.storageBytes,
                     classAOperations |-> w.response.classAOperations,
                     classBOperations |-> w.response.classBOperations]
           body == usageHandler_page(getR2Usage_page(reply))
       IN  reqs' = [reqs EXCEPT ![r] =
             Respond([@ EXCEPT !.source = IF kind = "ok" THEN "page_up"
                                          ELSE IF kind = "unconfigured"
                                            THEN "page_worker_unconfigured"
                                          ELSE "page_worker_failed",
                               !.usage = [threw |-> FALSE, value |-> body],
                               !.w = NoWorkerCall],
                     200, "usage")]
  /\ UNCHANGED <<varsRate, varsOps, variant, cfg, bucket, kv, month, kvFailures>>

\* An operator posts /reset to the worker, with or without the right
\* Authorization header.
CResetReceive(r) ==
  /\ variant = "counter"
  /\ reqs[r].pc = "idle"
  /\ cfg.workerUrl
  /\ \E authorized \in BOOLEAN :
       reqs' = [reqs EXCEPT ![r] =
                  [@ EXCEPT !.pc = "reset", !.w = ResetCall(month, authorized)]]
  /\ UNCHANGED <<varsRate, varsOps, variant, cfg, bucket, kv, month, kvFailures>>

\* The worker's answer to POST /reset reaches the operator.
CResetServed(r) ==
  /\ variant = "counter"
  /\ reqs[r].pc = "reset"
  /\ reqs[r].w.pc = "replied"
  /\ reqs' = [reqs EXCEPT ![r] = Respond(@, reqs[r].w.response.status, "reset")]
  /\ UNCHANGED <<varsRate, varsOps, variant, cfg, bucket, kv, month, kvFailures>>

\* form.parse has ended: file presence and type allow-list, up to the start
\* of the worker's GET /usage.
CParsed(r) ==
  /\ variant = "counter"
  /\ reqs[r].pc = "parsing"
  /\ \/ reqs' = [reqs EXCEPT ![r] = Throw(@)]
     \/ reqs' = [reqs EXCEPT ![r] = Respond(@, 400, "No file uploaded")]
     \/ \E file \in CounterFiles(r), unlinkOk \in BOOLEAN, reached \in BOOLEAN :
          LET req == [reqs[r] EXCEPT !.file = file, !.temp = "present"]
          IN  reqs' = [reqs EXCEPT ![r] =
                IF file.mimetype \notin ALLOWED_MIME_TYPES
                  THEN UnlinkThenRespond(req, unlinkOk, 400, "Invalid file type")
                  ELSE [req EXCEPT !.pc = "usage",
                                   !.w = IF ~cfg.workerUrl THEN SkippedCall
                                         ELSE IF ~reached THEN UnreachedCall
                                         ELSE UsageCall(month)]]
  /\ UNCHANGED <<varsRate, varsOps, variant, cfg, bucket, kv, month, kvFailures>>

\* The worker invocation serving request r performs its next KV operation.
WorkerStep(r) ==
  /\ variant = "counter"
  /\ reqs[r].w.pc \in WorkerRunning
  /\ \E kvOk \in BOOLEAN :
       /\ ~kvOk => kvFailures < MaxKvFailures
       /\ LET next == workerStep(reqs[r].w, kv, kvOk)
          IN  /\ reqs' = [reqs EXCEPT ![r].w = next.w]
              /\ kv' = next.kv
       /\ kvFailures' = IF kvOk THEN kvFailures ELSE kvFailures + 1
  /\ UNCHANGED <<varsRate, varsOps, variant, cfg, bucket, month>>

\* getR2Usage has returned: checkUsageLimits, the quota decision and the read
\* of the file, up to the start of the put.
CUsageReplied(r) ==
  /\ variant = "counter"
  /\ reqs[r].pc = "usage"
  /\ reqs[r].w.pc \in {"replied", "skipped", "unreached"}
  /\ \E delivered \in BOOLEAN, jsonOk \in BOOLEAN, readOk \in BOOLEAN, unlinkOk \in BOOLEAN :
       LET w == reqs[r].w
           kind == IF workerReplyKind(w, delivered) = "ok" /\ ~jsonOk
                     THEN "non_json" ELSE workerReplyKind(w, delivered)
           reply == [kind |-> kind,
                     storageBytes |-> w.response.storageBytes,
                     classAOperations |-> w.response.classAOperations,
                     classBOperations |-> w.response.classBOperations]
           currentUsage == getR2Usage(reply)
           usageCheck == checkUsageLimits_counter(currentUsage.value, reqs[r].file.size)
           req == [reqs[r] EXCEPT !.source = IF kind = "ok" THEN "up"
                                             ELSE IF kind = "unconfigured"
                                               THEN "worker_unconfigured"
                                             ELSE "worker_failed",
                                  !.usage = currentUsage,
                                  !.w = NoWorkerCall]
           checked == [req EXCEPT !.check = usageCheck]
       IN  reqs' = [reqs EXCEPT ![r] =
             IF currentUsage.threw THEN Throw(req)
             ELSE IF blocked_counter(usageCheck)
               THEN UnlinkThenRespond(checked, unlinkOk, 429, "Upload limit reached")
             ELSE IF ~readOk THEN Throw([checked EXCEPT !.reads = @ + 1])
             ELSE [checked EXCEPT !.pc = "putting", !.put = "issued",
                                  !.reads = @ + 1,
                                  !.key = Filename(r, reqs[r].file.ext)]]
  /\ UNCHANGED <<varsRate, varsOps, variant, cfg, bucket, kv, month, kvFailures>>

\* s3.send has ended; on success incrementUsageCounter("classA", file.size)
\* is called.
CPutDone(r) ==
  /\ variant = "counter"
  /\ reqs[r].pc = "putting"
  /\ \E putOk \in BOOLEAN, reached \in BOOLEAN :
       IF putOk
         THEN /\ bucket' = bucket \cup {[req |-> r, key |-> reqs[r].key,
                                         size |-> reqs[r].file.size]}
              /\ reqs' = [reqs EXCEPT ![r] =
                   IF ~cfg.workerUrl \/ cfg.workerSecret = "none"
                     THEN [@ EXCEPT !.pc = "incrementing", !.put = "ok",
                                    !.w = SkippedCall]
                     ELSE [@ EXCEPT !.pc = "incrementing", !.put = "ok",
                                    !.incr = "sent",
                                    !.w = IF ~reached THEN UnreachedCall
                                          ELSE IncrementCall(month, reqs[r].file.size,
                                                             cfg.workerSecret = "good")]]
         ELSE /\ reqs' = [reqs EXCEPT ![r] = Throw([@ EXCEPT !.put = "failed"])]
              /\ UNCHANGED bucket
  /\ UNCHANGED <<varsRate, varsOps, variant, cfg, kv, month, kvFailures>>

\* incrementUsageCounter has returned: the temporary file is removed and the
\* answer is 200.
CIncremented(r) ==
  /\ variant = "counter"
  /\ reqs[r].pc = "incrementing"
  /\ reqs[r].w.pc \in {"replied", "skipped", "unreached"}
  /\ \E delivered \in BOOLEAN, unlinkOk \in BOOLEAN :
       LET kind == workerReplyKind(reqs[r].w, delivered)
           req == [reqs[r] EXCEPT !.w = NoWorkerCall,
                                  !.incr = IF kind = "unconfigured" THEN "none"
                                           ELSE IF kind = "ok" THEN "ok" ELSE "failed"]
           out == UnlinkThenRespond(req, unlinkOk, 200, "Upload successful")
       IN  reqs' = [reqs EXCEPT ![r] =
                      IF out.status = 200
                        THEN [out EXCEPT !.url = publicUrl_counter(out.key)]
                        ELSE out]
  /\ UNCHANGED <<varsRate, varsOps, variant, cfg, bucket, kv, month, kvFailures>>

\* The wall clock enters the next calendar month.
NewMonth ==
  /\ variant = "counter"
  /\ month < MaxMonth
  /\ month' = month + 1
  /\ UNCHANGED <<varsRate, varsOps, variant, cfg, reqs, bucket, kv, kvFailures>>

NextCounter ==
  \/ \E r \in Reqs : CReceive(r) \/ CParsed(r) \/ WorkerStep(r) \/ CUsageReplied(r)
                       \/ CPutDone(r) \/ CIncremented(r)
                       \/ CPageReceive(r) \/ CPageServed(r)
                       \/ CResetReceive(r) \/ CResetServed(r)
  \/ NewMonth

\* The counters the namespace holds when the model starts: a fresh namespace,
\* or month 1 with class A or storage one step below half of its limit.
Starts == {"empty", "nearA", "nearS"}

StartUsage(start) ==
  IF start = "nearA" THEN UsageVal(CLASS_A_OPERATIONS \div 2 - 1, 0) ELSE UsageVal(0, 0)

StartStorage(start) ==
  IF start = "nearS" THEN StorageVal(STORAGE_LIMIT \div 2 - 1) ELSE StorageVal(0)

StartKV(start) ==
  [k \in KVKeys |->
     IF start = "empty" THEN Null
     ELSE IF k = <<"usage", 1>> THEN StartUsage(start)
     ELSE IF k \in {<<"storage", 1>>, <<"storage", 0>>} THEN StartStorage(start)
     ELSE Null]

\* CF_WORKER_URL and CF_WORKER_SECRET: both set (the secret right or wrong),
\* the secret missing, or the URL missing.
CounterConfigs ==
  {[workerUrl |-> TRUE, workerSecret |-> "good", start |-> start] : start \in Starts}
  \cup {[workerUrl |-> TRUE, workerSecret |-> "bad", start |-> "empty"],
        [workerUrl |-> TRUE, workerSecret |-> "none", start |-> "empty"],
        [workerUrl |-> FALSE, workerSecret |-> "none", start |-> "empty"]}

InitCounter ==
  /\ variant = "counter"
  /\ cfg \in CounterConfigs
  /\ now = 0
  /\ ticks = 0
  /\ rateLimitStore = << >>
  /\ admitted = [ip \in IPs |-> << >>]
  /\ calls = [ip \in IPs |-> 0]
  /\ lastCall = NoCall
  /\ reqs = [r \in Reqs |-> NoReq]
  /\ bucket = {}
  /\ kv = StartKV(cfg.start)
  /\ month = 1
  /\ kvFailures = 0
  /\ data = NoData
  /\ operationCounts = NoCounts

----------------------------------------------------------------------------
(* The operation classes of api/usage.js *)

\* Class A: write, delete and list operations
classA ==
  {"ListBuckets", "PutBucket", "ListObjects", "PutObject", "CopyObject",
   "CompleteMultipartUpload", "CreateMultipartUpload", "ListMultipartUploads",
   "UploadPart", "UploadPartCopy", "ListParts", "PutBucketEncryption",
   "PutBucketCors", "PutBucketLifecycleConfiguration", "DeleteObject"}

\* Class B: read and metadata operations
classB ==
  {"HeadBucket", "HeadObject", "GetObject", "UsageSummary", "GetBucketEncryption",
   "GetBucketLocation", "GetBucketCors", "GetBucketLifecycleConfiguration"}

\* Mutant: an operation of neither list is counted as class B.
countOperation_otherAsB(counts, op) ==
  LET requests == IF "requests" \in DOMAIN op.sum THEN op.sum.requests ELSE 0
  IN  IF op.actionType \in classA
        THEN [counts EXCEPT !.classA = @ + requests]
        ELSE [counts EXCEPT !.classB = @ + requests]

\* The body of operations.forEach: requests is op.sum.requests || 0, and an
\* action type of neither list is ignored.
countOperation(counts, op) ==
  LET requests == IF "requests" \in DOMAIN op.sum THEN op.sum.requests ELSE 0
  IN  IF op.actionType \in classA
        THEN [counts EXCEPT !.classA = @ + requests]
      ELSE IF op.actionType \in classB
        THEN [counts EXCEPT !.classB = @ + requests]
      ELSE counts

\* operations.forEach(...) from the zero counters
RECURSIVE forEachOperation(_, _)
forEachOperation(counts, operations) ==
  IF operations = << >> THEN counts
  ELSE forEachOperation(countOperation(counts, Head(operations)), Tail(operations))

processOperationsData(d) ==
  IF Len(d.accounts) = 0 THEN [classA |-> 0, classB |-> 0]
  ELSE forEachOperation([classA |-> 0, classB |-> 0],
                        d.accounts[1].r2OperationsAdaptiveGroups)

\* The groups the operations query returns in the model: two class A action
\* types, one of class B and one of neither list, with a request count of
\* one or two or a sum without request count.
Groups ==
  [actionType : {"PutObject", "DeleteObject", "GetObject", "AbortMultipartUpload"},
   sum : {[requests |-> 1], [requests |-> 2], [responseObjectSize |-> 1]}]

RECURSIVE SeqsUpTo(_, _)
SeqsUpTo(S, n) ==
  IF n = 0 THEN {<< >>}
  ELSE LET shorter == SeqsUpTo(S, n - 1)
       IN  shorter \cup {Append(q, x) : q \in shorter, x \in S}

\* What the analytics backend answers to the operations query: no account,
\* or one account with up to MaxGroups groups.
OperationsAnswers ==
  {NoData} \cup {[accounts |-> <<[r2OperationsAdaptiveGroups |-> ops]>>] :
                   ops \in SeqsUpTo(Groups, MaxGroups)}

InitOps ==
  /\ now = 0
  /\ ticks = 0
  /\ rateLimitStore = << >>
  /\ admitted = [ip \in IPs |-> << >>]
  /\ calls = [ip \in IPs |-> 0]
  /\ lastCall = NoCall
  /\ variant = "none"
  /\ cfg = [none |-> TRUE]
  /\ reqs = << >>
  /\ bucket = {}
  /\ kv = << >>
  /\ month = 1
  /\ kvFailures = 0
  /\ data = NoData
  /\ operationCounts = NoCounts

\* getR2Usage of api/usage.js hands the answer to the operations query to
\* processOperationsData (the model follows one call of getR2Usage).
OperationsProcessed ==
  /\ data = NoData
  /\ \E answer \in OperationsAnswers :
       /\ data' = answer
       /\ operationCounts' = processOperationsData(answer)
  /\ UNCHANGED <<now, ticks, rateLimitStore, admitted, calls, lastCall,
                 variant, cfg, reqs, bucket, kv, month, kvFailures>>

NextOps == OperationsProcessed

\* processOperationsData on the answers of the model
SpecOps == InitOps /\ [][NextOps]_vars

\* What the scheduling of api/upload.js guarantees of a request in flight:
\* form.parse ends when the client has sent its body; the fetch of
\* /api/usage, before the put and after it, ends at the latest when
\* AbortSignal.timeout(15000) fires (line 225).  s3.send is awaited without
\* abort signal, and the S3Client is built without request or connection
\* timeout (lines 41-49): nothing in the handler ends a put the blob store
\* does not answer, so PutDone is not among the fair steps.
Fairness ==
  \A r \in Reqs :
    /\ WF_vars(Parsed(r))
    /\ WF_vars(UsageReplied(r))
    /\ WF_vars(Refetched(r))

SpecLive == InitAnalytics /\ [][NextAnalytics]_vars /\ Fairness

Init == InitAnalytics \/ InitCounter

Next == NextAnalytics \/ NextCounter

Spec == Init /\ [][Next]_vars

----------------------------------------------------------------------------
(* Properties of the rate limiter *)

\* The admitted calls of ip whose timestamps t satisfy lo <= t <= hi.
AdmittedBetween(ip, lo, hi) ==
  Cardinality({i \in 1..Len(admitted[ip]) :
                 lo <= admitted[ip][i] /\ admitted[ip][i] <= hi})

WindowEnds(ip) == {admitted[ip][i] : i \in 1..Len(admitted[ip])} \cup {now}

PriorAttempts ==
  AdmittedBetween(lastCall.ip, lastCall.time - windowMs + 1, lastCall.time)
    - (IF lastCall.ok THEN 1 ELSE 0)

----------------------------------------------------------------------------
(* Properties of the upload handlers *)

\* The request has a quota decision.
Checked(req) == req.check # NoCheck

\* The current values of the snapshot the request's quota check used.
Current(req) ==
  IF variant = "analytics"
    THEN [storage |-> req.usage.value.storage.currentBytes,
          classA |-> req.usage.value.classA.currentValue,
          classB |-> req.usage.value.classB.currentValue]
    ELSE [storage |-> req.usage.value.storageBytes,
          classA |-> req.usage.value.classAOperations,
          classB |-> req.usage.value.classBOperations]

Dimensions == {"Storage", "Class A Operations", "Class B Operations"}

\* The projected usage of a dimension is strictly above 50% of its limit.
ProjectedOver(req, dim) ==
  CASE dim = "Storage" ->
         (Current(req).storage + req.file.size) * 100 > 50 * STORAGE_LIMIT
    [] dim = "Class A Operations" ->
         (Current(req).classA + 1) * 100 > 50 * CLASS_A_OPERATIONS
    [] dim = "Class B Operations" ->
         Current(req).classB * 100 > 50 * CLASS_B_OPERATIONS

Listed(req, dim) ==
  \E i \in 1..Len(req.check.exceededLimits) : req.check.exceededLimits[i] = dim

\* C1: checkUsageLimits lists a dimension in exceededLimits exactly when its
\* projected percentage (storage: current + file size, class A: current + 1,
\* class B: current, each over its limit) is strictly above 50%, lists every
\* such dimension, and sets canUpload exactly when the list is empty.
C1_ExceededExactly ==
  \A r \in DOMAIN reqs :
    Checked(reqs[r]) =>
      /\ \A dim \in Dimensions : Listed(reqs[r], dim) <=> ProjectedOver(reqs[r], dim)
      /\ reqs[r].check.canUpload <=> Len(reqs[r].check.exceededLimits) = 0

QuotaRefused(req) ==
  req.status = 429 /\ req.reason \in {"Upload blocked due to usage limits",
                                      "Upload limit reached"}

\* C2: in api/upload.js an upload that passed the origin, rate-limit, size
\* and content checks is refused for quota (429) if and only if some
\* dimension's projected usage is strictly above 50% of its limit; with every
\* projection at or below 50% the handler goes on towards the put.
C2_QuotaRefusalIff ==
  variant = "analytics" =>
    \A r \in DOMAIN reqs :
      Checked(reqs[r]) =>
        (QuotaRefused(reqs[r]) <=> \E dim \in Dimensions : ProjectedOver(reqs[r], dim))

\* The quota check of the request has completed with approval.
Approved(req) ==
  /\ Checked(req)
  /\ req.check.canUpload
  /\ variant = "analytics" => ~req.check.shouldBlockUploads

\* C5: a request's put is started only after its own quota check completed
\* with approval; a request whose quota check refused or has not finished
\* has issued no put and owns no object of the blob store.
C5_PutAfterApproval ==
  /\ \A r \in DOMAIN reqs :
       reqs[r].put # "none" => Approved(reqs[r]) /\ ~QuotaRefused(reqs[r])
  /\ \A o \in bucket : Approved(reqs[o.req]) /\ reqs[o.req].put = "ok"

\* One request was refused for quota and issued no put while another one was
\* approved and stored its object.
C5_Witness ==
  \E r \in DOMAIN reqs, q \in DOMAIN reqs :
    /\ QuotaRefused(reqs[r]) /\ reqs[r].put = "none"
    /\ reqs[q].put = "ok" /\ \E o \in bucket : o.req = q

RECURSIVE SumSizes(_)
SumSizes(objects) ==
  IF objects = {} THEN 0
  ELSE LET o == CHOOSE x \in objects : TRUE
       IN  o.size + SumSizes(objects \ {o})

\* C6: in the counter-service variant a request's increment is sent only
\* after its put returned success (no increment after a failed put or a
\* rejection), so the counters never exceed their starting values by more
\* than the operations and bytes of the objects stored.
C6_IncrementAfterPut ==
  variant = "counter" =>
    /\ \A r \in DOMAIN reqs :
         (reqs[r].incr # "none" \/ reqs[r].w.route = "increment") =>
           reqs[r].put = "ok" /\ \E o \in bucket : o.req = r
    /\ \A m \in 1..MaxMonth :
         kv[<<"usage", m>>] # Null =>
           kv[<<"usage", m>>].classAOperations
             <= StartUsage(cfg.start).classAOperations + Cardinality(bucket)
    /\ \A m \in 0..MaxMonth :
         kv[<<"storage", m>>] # Null =>
           kv[<<"storage", m>>].bytes
             <= StartStorage(cfg.start).bytes + SumSizes(bucket)

\* An increment was counted for a stored object while another request's put
\* failed and sent none.
C6_Witness ==
  /\ variant = "counter"
  /\ \E r \in DOMAIN reqs, q \in DOMAIN reqs :
       /\ reqs[r].incr = "ok" /\ reqs[r].put = "ok"
       /\ reqs[q].put = "failed" /\ reqs[q].incr = "none" /\ reqs[q].status = 500
  /\ \E m \in 1..MaxMonth :
       /\ kv[<<"usage", m>>] # Null
       /\ kv[<<"usage", m>>].classAOperations
            = StartUsage(cfg.start).classAOperations + 1

\* C7: in the counter-service variant, starting below the threshold, with
\* every usage read answered by the worker and every increment succeeding,
\* no interleaving of concurrent uploads pushes the tracked storage bytes or
\* class A operations above 50% of their limits.
C7_NoOvershoot ==
  (/\ variant = "counter"
   /\ kvFailures = 0
   /\ \A r \in DOMAIN reqs :
        reqs[r].incr # "failed" /\ reqs[r].source \in {"none", "up"}) =>
    /\ \A m \in 1..MaxMonth :
         kv[<<"usage", m>>] # Null =>
           kv[<<"usage", m>>].classAOperations * 100 <= 50 * CLASS_A_OPERATIONS
    /\ \A m \in 0..MaxMonth :
         kv[<<"storage", m>>] # Null =>
           kv[<<"storage", m>>].bytes * 100 <= 50 * STORAGE_LIMIT

\* The ways the usage source is unavailable when the quota is checked.
Unavailable == {"fetch_failed", "analytics_error", "analytics_unconfigured",
                "worker_failed", "worker_unconfigured"}

\* C8: when the usage source is unavailable at any hop while an upload's
\* quota is checked, the upload is refused with 429 and nothing is written.
\* A request that is rejected for a fault of its own before any put (a 400
\* for its extension, a 500 because its temporary file cannot be read or
\* removed) is not held against the claim.
C8_UnavailableRefused ==
  \A r \in DOMAIN reqs :
    reqs[r].source \in Unavailable =>
      /\ QuotaRefused(reqs[r]) \/ (reqs[r].status \in {400, 500} /\ reqs[r].put = "none")
      /\ reqs[r].put = "none"
      /\ \A o \in bucket : o.req # r

HasLimit(snapshot, dim) ==
  /\ dim \in DOMAIN snapshot
  /\ "limit" \in DOMAIN snapshot[dim]
  /\ snapshot[dim].limit > 0

\* The snapshot of a failed fetch: error indicator and non-zero usage.
FallbackFlagged(req) ==
  /\ ~req.usage.threw
  /\ usageError(req.usage.value) # ""
  /\ Current(req).storage > 0
  /\ Current(req).classA > 0
  /\ Current(req).classB > 0

\* C9 as stated: the usage client never throws, and for every failure of its
\* fetch returns a snapshot holding, for storage, class A and class B, the
\* current value and the limit, with a non-empty error indicator and
\* non-zero assumed usage in every dimension.
C9_CompleteWithLimits ==
  \A r \in DOMAIN reqs :
    reqs[r].source \in {"fetch_failed", "worker_failed"} =>
      /\ FallbackFlagged(reqs[r])
      /\ \A dim \in {"storage", "classA", "classB"} : HasLimit(reqs[r].usage.value, dim)

\* C9 amended: the usage client never throws, and for every failure of its
\* fetch returns a snapshot with a non-empty error indicator and non-zero
\* assumed usage in every dimension; getCurrentUsage pairs each value with
\* its limit and a non-zero percentage, getR2Usage of the counter-service
\* variant returns the three current values only.
C9_FallbackSnapshot ==
  \A r \in DOMAIN reqs :
    /\ reqs[r].usage # NoUsage => ~reqs[r].usage.threw
    /\ reqs[r].source \in {"fetch_failed", "worker_failed"} =>
         /\ FallbackFlagged(reqs[r])
         /\ variant = "analytics" =>
              \A dim \in {"storage", "classA", "classB"} :
                /\ HasLimit(reqs[r].usage.value, dim)
                /\ reqs[r].usage.value[dim].percentage > 0
         /\ variant = "counter" =>
              DOMAIN reqs[r].usage.value
                = {"storageBytes", "classAOperations", "classBOperations", "error"}

\* A request whose usage fetch failed holds the fallback snapshot.
C9_Witness ==
  \E r \in DOMAIN reqs :
    /\ reqs[r].source \in {"fetch_failed", "worker_failed"}
    /\ Checked(reqs[r])
    /\ usageError(reqs[r].usage.value) # ""

\* C10: a usage snapshot served by /api/usage while its upstream source is
\* failing or unconfigured never reports zero usage: every dimension's
\* current value and percentage are non-zero.
C10_NoZeroOnError ==
  variant = "analytics" =>
    \A r \in DOMAIN reqs :
      reqs[r].source \in {"analytics_error", "analytics_unconfigured"} =>
        /\ reqs[r].usage.value.storage.currentBytes # 0
        /\ reqs[r].usage.value.storage.percentage # 0
        /\ reqs[r].usage.value.classA.currentValue # 0
        /\ reqs[r].usage.value.classA.percentage # 0
        /\ reqs[r].usage.value.classB.currentValue # 0
        /\ reqs[r].usage.value.classB.percentage # 0

\* The warning strings of a served usage object.
Warnings(body) == IF "warnings" \in DOMAIN body THEN body.warnings ELSE << >>

\* C11: GET /usage answers 200 with a usage object holding at least one
\* warning string whenever its upstream analytics or counter source is
\* unreachable, returns an error or is not configured; it never answers 500
\* for those causes.
C11_UsageDegrades ==
  \A r \in DOMAIN reqs :
    /\ reqs[r].source \in {"analytics_error", "analytics_unconfigured"} =>
         Len(Warnings(reqs[r].usage.value)) >= 1
    /\ reqs[r].source \in {"page_worker_failed", "page_worker_unconfigured"} =>
         /\ reqs[r].status = 200
         /\ Len(Warnings(reqs[r].usage.value)) >= 1

\* C12: every upload request that got as far as having a temporary file on
\* disk ends with that file removed, on every exit path (each 400, 429 and
\* 500 response as well as the 200 response).  A removal the handler
\* attempted and the file system refused is not held against the claim.
C12_TempFileRemoved ==
  \A r \in DOMAIN reqs :
    (reqs[r].pc = "done" /\ reqs[r].temp # "none") =>
      reqs[r].temp \in {"removed", "unlink_failed"}

\* C13: once the put of a request has succeeded, the request always ends
\* with a 200 response, whatever the outcome of the usage increment, of the
\* usage re-fetch or of the removal of the temporary file.
C13_StoredMeans200 ==
  \A r \in DOMAIN reqs :
    (reqs[r].put = "ok" /\ reqs[r].pc = "done") => reqs[r].status = 200

----------------------------------------------------------------------------
(* Properties of content validation *)

\* The magic number registered for a claimed media type, image/jpg using the
\* JPEG one.
Signature(mimetype) ==
  MAGIC_NUMBERS[IF mimetype = "image/jpg" THEN "image/jpeg" ELSE mimetype]

\* The leading bytes equal the signature byte for byte.
HasSignature(head, signature) ==
  /\ Len(head) >= Len(signature)
  /\ SubSeq(head, 1, Len(signature)) = signature

\* The request's file went past validateFile.
Accepted(req) ==
  req.file # NoFile /\ (req.pc # "done" \/ req.source # "none")

ContentMismatch == "File type validation failed"

\* C14: validateFile accepts a buffer only if its leading bytes equal, byte
\* for byte, the magic number registered for the claimed media type
\* (image/jpg using the JPEG signature); a buffer carrying the signature of
\* a different allowed type, or shorter than the signature, is rejected
\* with 400 before any usage fetch or put.
C14_SignatureMatches ==
  variant = "analytics" =>
    \A r \in DOMAIN reqs :
      (reqs[r].file # NoFile /\ reqs[r].file.mimetype \in ALLOWED_MIME_TYPES) =>
        /\ Accepted(reqs[r]) =>
             HasSignature(reqs[r].file.head, Signature(reqs[r].file.mimetype))
        /\ ~HasSignature(reqs[r].file.head, Signature(reqs[r].file.mimetype)) =>
             /\ reqs[r].status = 400
             /\ reqs[r].source = "none"
             /\ reqs[r].put = "none"

\* A PNG declared image/jpeg was rejected for its content while a JPEG
\* declared image/jpg went past validateFile.
C14_Witness ==
  \E r \in DOMAIN reqs, q \in DOMAIN reqs :
    /\ reqs[r].file.mimetype = "image/jpeg"
    /\ HasSignature(reqs[r].file.head, MAGIC_NUMBERS["image/png"])
    /\ reqs[r].status = 400 /\ reqs[r].reason = ContentMismatch
    /\ reqs[q].file.mimetype = "image/jpg"
    /\ Accepted(reqs[q])

\* The leading bytes carry none of the four registered signatures.
NoSignature(head) ==
  \A type \in MagicTypes : ~HasSignature(head, MAGIC_NUMBERS[type])

\* C15 as stated: any upload whose leading bytes match none of the four
\* allowed signatures is rejected with the content-mismatch reason, whatever
\* media type it claims.  A file the handler could not read is left aside.
C15_MismatchReason ==
  variant = "analytics" =>
    \A r \in DOMAIN reqs :
      (/\ reqs[r].file # NoFile
       /\ NoSignature(reqs[r].file.head)
       /\ reqs[r].reason # "Failed to read uploaded file") =>
        reqs[r].status = 400 /\ reqs[r].reason = ContentMismatch

\* C15 amended: any upload whose leading bytes match none of the four
\* allowed signatures is rejected with 400 before any usage fetch or put;
\* the reason is "Invalid file type" when the claimed media type is outside
\* the allow-list, and otherwise the content-mismatch reason (or the read
\* failure, when the temporary file cannot be read).
C15_RejectedUnsigned ==
  variant = "analytics" =>
    \A r \in DOMAIN reqs :
      (reqs[r].file # NoFile /\ NoSignature(reqs[r].file.head)) =>
        /\ reqs[r].status = 400
        /\ reqs[r].source = "none"
        /\ reqs[r].put = "none"
        /\ reqs[r].reason =
             IF reqs[r].file.mimetype \notin ALLOWED_MIME_TYPES
               THEN "Invalid file type"
             ELSE IF reqs[r].reason = "Failed to read uploaded file"
               THEN "Failed to read uploaded file"
             ELSE ContentMismatch

\* A truncated JPEG was rejected for its content and a PDF for its type.
C15_Witness ==
  \E r \in DOMAIN reqs, q \in DOMAIN reqs :
    /\ reqs[r].file # NoFile /\ NoSignature(reqs[r].file.head)
    /\ reqs[r].file.mimetype = "image/jpeg"
    /\ reqs[r].status = 400 /\ reqs[r].reason = ContentMismatch
    /\ reqs[q].file # NoFile /\ NoSignature(reqs[q].file.head)
    /\ reqs[q].file.mimetype \notin ALLOWED_MIME_TYPES
    /\ reqs[q].status = 400 /\ reqs[q].reason = "Invalid file type"

ExtensionMismatch == "File extension doesn't match content type"

\* Two requests carry the same upload (bytes, size, filename) and met the
\* same quota decision, the first claiming image/jpg, the second image/jpeg.
SameButJpg(reqJpg, reqJpeg) ==
  /\ reqJpg.file # NoFile
  /\ reqJpg.file.mimetype = "image/jpg"
  /\ reqJpeg.file = [reqJpg.file EXCEPT !.mimetype = "image/jpeg"]
  /\ Checked(reqJpg) /\ Checked(reqJpeg)
  /\ reqJpg.check = reqJpeg.check

\* C16: an upload claiming image/jpg is handled exactly as the same upload
\* claiming image/jpeg: for identical bytes, filename and quota state the
\* handler never rejects one with 400 while it stores the other and answers
\* 200, so a valid JPEG named a.jpg and declared image/jpg, under quota, is
\* not answered 400.
C16_JpgAsJpeg ==
  \A r \in DOMAIN reqs, q \in DOMAIN reqs :
    SameButJpg(reqs[r], reqs[q]) =>
      /\ reqs[q].status = 200 => reqs[r].status # 400
      /\ reqs[r].status = 200 => reqs[q].status # 400

\* The filename extension belongs to the allowed set of the claimed media
\* type, image/jpg counting as image/jpeg.
ExtensionAllowed(file) ==
  validExtensions(IF file.mimetype = "image/jpg" THEN "image/jpeg" ELSE file.mimetype,
                  file.ext)

\* C17: an upload whose filename extension is not in the allowed set of its
\* claimed media type is rejected with 400 by content validation,
\* independently of the quota state: it is never answered 429 for quota,
\* never causes a usage snapshot to be fetched and never reaches the blob
\* store.
C17_ExtensionBeforeQuota ==
  \A r \in DOMAIN reqs :
    (/\ reqs[r].file # NoFile
     /\ reqs[r].file.mimetype \in ALLOWED_MIME_TYPES
     /\ reqs[r].file.ext # NoFilename
     /\ ~ExtensionAllowed(reqs[r].file)) =>
      /\ reqs[r].source = "none"
      /\ ~QuotaRefused(reqs[r])
      /\ reqs[r].put = "none"
      /\ reqs[r].pc = "done" => reqs[r].status = 400

----------------------------------------------------------------------------
(* Properties of the request gate of api/upload.js *)

\* The request carries an Origin header whose value is not in the allow-list.
ForeignOrigin(req) == req.origin # "" /\ req.origin \notin allowedOrigins

\* C18 as stated: the upload handler answers 403 exactly when the request
\* carries an Origin header whose value is not in the configured allow-list.
C18_ForbiddenIffForeign ==
  variant = "analytics" =>
    \A r \in DOMAIN reqs :
      reqs[r].pc # "idle" => (reqs[r].status = 403 <=> ForeignOrigin(reqs[r]))

\* Every blob-store setting api/upload.js needs has a value.
EnvComplete ==
  /\ variant = "analytics"
  /\ {"R2_ENDPOINT", "R2_ACCESS_KEY", "R2_SECRET_KEY", "R2_BUCKET",
      "R2_CUSTOM_DOMAIN"} \subseteq cfg.env

\* C18 amended: a POST request to a deployment whose blob-store environment
\* is complete is answered 403 exactly when it carries an Origin header
\* whose value is not in the allow-list; any other request (another method,
\* an incomplete environment) is answered 405 or 500 before its origin is
\* looked at, and a request without Origin header is never answered 403.
C18_ForbiddenIffForeignPost ==
  variant = "analytics" =>
    \A r \in DOMAIN reqs :
      reqs[r].pc # "idle" =>
        /\ (reqs[r].status = 403
              <=> (EnvComplete /\ reqs[r].method = "POST" /\ ForeignOrigin(reqs[r])))
        /\ ~EnvComplete => reqs[r].status = 500
        /\ (EnvComplete /\ reqs[r].method # "POST") => reqs[r].status = 405
        /\ reqs[r].origin = "" => reqs[r].status # 403

\* A POST from a foreign origin was answered 403 while a POST without
\* Origin header went on to the parsing of its form.
C18_Witness ==
  \E r \in DOMAIN reqs, q \in DOMAIN reqs :
    /\ reqs[r].method = "POST" /\ ForeignOrigin(reqs[r]) /\ reqs[r].status = 403
    /\ reqs[q].method = "POST" /\ reqs[q].origin = ""
    /\ reqs[q].file # NoFile

\* The filename extensions api/upload.js pairs with a media type.
AllowedExtensions(mimetype) ==
  CASE mimetype = "image/jpeg" -> {"jpg", "jpeg"}
    [] mimetype = "image/png" -> {"png"}
    [] mimetype = "image/gif" -> {"gif"}
    [] mimetype = "image/webp" -> {"webp"}
    [] OTHER -> {}

\* Every check that precedes the put in api/upload.js has passed.
ChecksPassed(req) ==
  /\ req.method = "POST"
  /\ ~ForeignOrigin(req)
  /\ req.file # NoFile
  /\ req.file.mimetype \in ALLOWED_MIME_TYPES
  /\ HasSignature(req.file.head, Signature(req.file.mimetype))
  /\ req.file.size > 0 /\ req.file.size <= MAX_FILE_SIZE
  /\ ~req.file.suspicious
  /\ Approved(req)
  /\ req.file.ext \in AllowedExtensions(req.file.mimetype)

\* The put of a request, once issued, is never issued again: it only goes
\* from issued to its outcome and then stays.
PutNotRetried ==
  \A r \in DOMAIN reqs :
    /\ reqs[r].put = "issued" => reqs'[r].put \in {"issued", "ok", "failed"}
    /\ reqs[r].put \in {"ok", "failed"} => reqs'[r].put = reqs[r].put

PutOnlyAfterChecks ==
  \A r \in DOMAIN reqs :
    /\ Cardinality({o \in bucket : o.req = r}) <= 1
    /\ reqs[r].put = "failed" => (reqs[r].pc = "done" /\ reqs[r].status = 500)
    /\ reqs[r].status \in {400, 403, 405, 413, 429} => reqs[r].put = "none"
    /\ (variant = "analytics" /\ reqs[r].put # "none") => ChecksPassed(reqs[r])

\* C19: each upload request issues at most one put (a failed put is
\* answered 500 and not retried), and only after the origin, rate-limit,
\* request-size, media-type, content, quota and extension checks have all
\* passed; a request rejected by any of these checks issues no put.
C19_OnePutAfterChecks == []PutOnlyAfterChecks /\ [][PutNotRetried]_vars

\* One request's put failed and was answered 500 while another request's
\* put stored its object.
C19_Witness ==
  /\ variant = "analytics"
  /\ \E r \in DOMAIN reqs, q \in DOMAIN reqs :
       /\ reqs[r].put = "failed" /\ reqs[r].status = 500
       /\ reqs[q].put = "ok" /\ reqs[q].status = 200

\* C20: api/upload.js never writes an object of more than 10 MiB (10 * 1024
\* KiB) to the bucket, whatever content-length the request declared: the size
\* of the file part is drawn independently of the declared length, and a
\* missing or non-numeric header (read as 0) passes the request-size check.
C20_NoOversizeObject ==
  variant = "analytics" => \A o \in bucket : o.size <= 10 * 1024

\* A file part of more than 10 MiB was refused by one request while the
\* object of another request is in the bucket.
C20_Witness ==
  /\ variant = "analytics"
  /\ \E r, q \in DOMAIN reqs :
       /\ reqs[r].pc = "done" /\ reqs[r].status = 400
       /\ reqs[r].reason = "FORM_PARSING maxFileSize exceeded"
       /\ reqs[r].put = "none"
       /\ reqs[q].put = "ok"
       /\ \E o \in bucket : o.req = q

\* The last path segment of a URL.
LastSegment(url) == url[Len(url)]

\* C21: every 200 response of an upload handler carries a URL whose last
\* path segment is the key the put used, a fresh UUID followed by an
\* extension that is allowed for the upload's media type.
C21_UrlNamesStoredKey ==
  \A r \in DOMAIN reqs :
    (reqs[r].status = 200 /\ reqs[r].file # NoFile) =>
      /\ Len(reqs[r].url) > 0
      /\ LastSegment(reqs[r].url) = reqs[r].key
      /\ \E o \in bucket : o.req = r /\ o.key = reqs[r].key
      /\ \A q \in DOMAIN reqs : (q # r /\ reqs[q].put # "none") => reqs[q].key # reqs[r].key
      /\ reqs[r].key.ext \in AllowedExtensions(reqs[r].file.mimetype)

----------------------------------------------------------------------------
(* Progress of the upload handler of api/upload.js *)

\* C22: every upload request that api/upload.js started to handle eventually
\* gets a response, even when the usage source or the blob store never
\* answers, because the usage fetch and the put are both cut off by a
\* timeout.
C22_EventuallyAnswered ==
  \A r \in Reqs : (reqs[r].pc \notin {"idle", "done"}) ~> (reqs[r].pc = "done")

----------------------------------------------------------------------------
(* Properties of the usage-tracker worker *)

\* No increment has been counted under month m: POST /increment writes
\* usage:<m> with the operation added before it touches any storage key.
NothingCounted(m) ==
  kv[<<"usage", m>>] = Null \/ kv[<<"usage", m>>].classAOperations = 0

\* C23: the worker's usage of a calendar month counts only what was
\* incremented in that month: a GET /usage answered in a month after the
\* first one, under which no increment has been counted, reports class A = 0,
\* class B = 0 and storage bytes = 0, whatever earlier months or
\* storage:latest hold and whatever KV operations failed before.
C23_MonthStartsFromZero ==
  variant = "counter" =>
    \A r \in DOMAIN reqs :
      LET w == reqs[r].w
      IN  (/\ w.pc = "replied" /\ w.route = "usage" /\ w.response.status = 200
           /\ w.monthKey > 1
           /\ NothingCounted(w.monthKey)) =>
            /\ w.response.classAOperations = 0
            /\ w.response.classBOperations = 0
            /\ w.response.storageBytes = 0

\* The worker call is a POST /increment or POST /reset whose Authorization
\* header is not exactly "Bearer <API_SECRET>".
Unauthorized(w) == w.route \in {"increment", "reset"} /\ ~w.authorized

\* An unauthorized call is answered with an error status and performs no KV
\* operation.
UnauthorizedAnswered ==
  \A r \in DOMAIN reqs :
    Unauthorized(reqs[r].w) =>
      /\ reqs[r].w.pc = "replied"
      /\ reqs[r].w.response.status >= 400
      /\ ~reqs[r].w.response.success

\* Every step that changes the namespace is a KV operation of a call that is
\* not an unauthorized one.
CountersChangedByAuthorized ==
  kv' # kv =>
    \E r \in DOMAIN reqs :
      /\ reqs[r].w.pc \in WorkerRunning
      /\ reqs'[r].w # reqs[r].w
      /\ ~Unauthorized(reqs[r].w)

\* C24: a POST /increment or POST /reset whose Authorization header is not
\* exactly "Bearer <API_SECRET>" never changes a stored counter (class A,
\* class B, storage bytes) and is answered with an error status.
C24_UnauthorizedChangesNothing ==
  []UnauthorizedAnswered /\ [][CountersChangedByAuthorized]_vars

\* With class A operations on record, a POST /reset without the right
\* header was answered 401.
C24_Witness ==
  /\ variant = "counter"
  /\ \E r \in DOMAIN reqs :
       /\ reqs[r].w.route = "reset" /\ ~reqs[r].w.authorized
       /\ reqs[r].pc = "done" /\ reqs[r].status = 401
  /\ \E m \in 1..MaxMonth :
       /\ kv[<<"usage", m>>] # Null
       /\ kv[<<"usage", m>>].classAOperations > 0

----------------------------------------------------------------------------
(* Order of the checks of api/upload.js *)

\* C25: when a required blob-store setting (endpoint, access key, secret
\* key, bucket, public domain) is missing, api/upload.js answers 500 before
\* anything else: no rate-limit entry is recorded, the body is not parsed, no
\* usage snapshot is fetched and no put is issued.
C25_FailsFastOnEnvironment ==
  (variant = "analytics" /\ ~EnvComplete) =>
    /\ rateLimitStore \in {<< >>, FullStore, NearlyFullStore}
    /\ bucket = {}
    /\ \A r \in DOMAIN reqs :
         /\ reqs[r].pc \in {"idle", "done"}
         /\ reqs[r].pc = "done" =>
              /\ reqs[r].status = 500
              /\ reqs[r].file = NoFile /\ reqs[r].temp = "none"
              /\ reqs[r].source = "none" /\ reqs[r].usage = NoUsage
              /\ reqs[r].put = "none"

\* With the public domain missing, a POST without Origin header of an
\* identity below its rate limit, which would otherwise be parsed, was
\* answered 500.
C25_Witness ==
  /\ variant = "analytics"
  /\ "R2_CUSTOM_DOMAIN" \notin cfg.env /\ "R2_BUCKET" \in cfg.env
  /\ \E r \in DOMAIN reqs :
       /\ reqs[r].pc = "done" /\ reqs[r].status = 500
       /\ reqs[r].method = "POST" /\ reqs[r].origin = "" /\ reqs[r].ip = "ip1"
       /\ rateLimitStore = << >>

\* The request was rejected by a check that runs before the form is parsed:
\* origin, rate limit or declared request size.
RejectedBeforeParsing(req) ==
  \/ req.status \in {403, 413}
  \/ req.status = 429 /\ req.reason = "Rate limit exceeded"

\* The request was rejected for a missing file or by the media-type
\* allow-list.
RejectedByAllowList(req) ==
  req.status = 400 /\ req.reason \in {"No file uploaded", "Invalid file type"}

\* The request was rejected by content validation.
RejectedByContent(req) ==
  req.status = 400 /\ req.reason \in {"Failed to read uploaded file",
                                       "Empty file not allowed",
                                       "File type validation failed",
                                       "File too large",
                                       "Suspicious file content detected"}

\* Nothing of the quota gate or of the put has been evaluated for the request.
QuotaUntouched(req) ==
  /\ req.source = "none" /\ req.usage = NoUsage /\ req.check = NoCheck
  /\ req.w = NoWorkerCall
  /\ req.put = "none"

\* The response of a rejected request is the one of the first check that
\* fails, in the order origin, rate limit, declared size, missing file or
\* allow-list, content validation, quota: every earlier check had passed and
\* nothing of a later one is on record.
FirstFailingCheckAnswers ==
  \A r \in DOMAIN reqs :
    LET req == reqs[r]
    IN  /\ req.status = 403 => ForeignOrigin(req)
        /\ (req.pc = "done" /\ ForeignOrigin(req) /\ EnvComplete /\ req.method = "POST")
             => req.status = 403
        /\ RejectedBeforeParsing(req) =>
             /\ req.file = NoFile /\ req.temp = "none"
             /\ QuotaUntouched(req)
        /\ (RejectedBeforeParsing(req) /\ req.status # 403) => ~ForeignOrigin(req)
        /\ RejectedByAllowList(req) =>
             /\ ~ForeignOrigin(req)
             /\ req.file # NoFile => req.file.mimetype \notin ALLOWED_MIME_TYPES
             /\ QuotaUntouched(req)
        /\ RejectedByContent(req) =>
             /\ ~ForeignOrigin(req)
             /\ req.file.mimetype \in ALLOWED_MIME_TYPES
             /\ QuotaUntouched(req)
        /\ QuotaRefused(req) =>
             /\ ~ForeignOrigin(req)
             /\ req.file.mimetype \in ALLOWED_MIME_TYPES
             /\ variant = "analytics" =>
                  /\ HasSignature(req.file.head, Signature(req.file.mimetype))
                  /\ ~req.file.suspicious
             /\ req.put = "none"

\* A request rejected for its origin was not counted by the rate limiter.
OriginBeforeRateLimit ==
  \A r \in DOMAIN reqs :
    (reqs[r].pc = "idle" /\ reqs'[r].status = 403) => rateLimitStore' = rateLimitStore

C27_AllowListBeforeContent ==
  variant = "analytics" =>
    \A r \in DOMAIN reqs :
      (reqs[r].file # NoFile /\ reqs[r].file.mimetype \notin ALLOWED_MIME_TYPES) =>
        /\ reqs[r].pc = "done" /\ reqs[r].status = 400
        /\ reqs[r].reason = "Invalid file type"
        /\ reqs[r].reads = 0
        /\ ~reqs[r].compared

\* A PDF was answered "Invalid file type" unread, while the bytes of a JPEG
\* were read and compared with the signature of its type.
C27_Witness ==
  /\ variant = "analytics"
  /\ \E r, q \in DOMAIN reqs :
       /\ reqs[r].file.mimetype = "application/pdf"
       /\ reqs[r].status = 400 /\ reqs[r].reads = 0
       /\ reqs[q].file.mimetype = "image/jpeg"
       /\ reqs[q].reads > 0 /\ reqs[q].compared

----------------------------------------------------------------------------
(* Properties of the rate-limit table *)

\* A step in which rateLimitCheck refused a call leaves the table as it was.
RefusalLeavesTable ==
  (calls' # calls /\ ~lastCall'.ok) => rateLimitStore' = rateLimitStore

\* C28: a rateLimitCheck call that is refused (the identity already has 20
\* attempts within the last 15 minutes) leaves the whole rate-limit table
\* unchanged: no timestamp is appended, no entry is rewritten and no cleanup
\* sweep runs.
C28_RefusalLeavesTable == [][RefusalLeavesTable]_vars

\* All the timestamps of the list are at least 15 minutes old.
AllStale(list, t) == \A i \in 1..Len(list) : t - list[i] >= windowMs

\* A call of the first identity has just been refused while the table still
\* holds the second identity with nothing but attempts that have left the
\* window, which a sweep would have deleted.
C28_Witness ==
  /\ lastCall.ip = "ip1" /\ ~lastCall.ok /\ lastCall.time = now
  /\ "ip1" \in DOMAIN rateLimitStore
  /\ Len(rateLimitStore["ip1"]) = maxAttempts
  /\ "ip2" \in DOMAIN rateLimitStore
  /\ AllStale(rateLimitStore["ip2"], now)

NonDecreasing(list) == \A i \in 1..Len(list) - 1 : list[i] <= list[i + 1]

\* Every timestamp of the list is less than 15 minutes older than t.
AllFresh(list, t) == \A i \in 1..Len(list) : t - list[i] < windowMs

\* A step that writes an identity's list leaves only timestamps less than 15
\* minutes older than the time of the write in it.
WritesFresh ==
  \A ip \in DOMAIN rateLimitStore' :
    (ip \notin DOMAIN rateLimitStore \/ rateLimitStore'[ip] # rateLimitStore[ip]) =>
      AllFresh(rateLimitStore'[ip], now)

TableBoundedSorted ==
  \A ip \in DOMAIN rateLimitStore :
    /\ Len(rateLimitStore[ip]) <= maxAttempts
    /\ NonDecreasing(rateLimitStore[ip])

\* C29 as stated: in every reachable state of the rate-limit table each
\* identity's list holds at most 20 timestamps, in non-decreasing order, and
\* right after any write to an identity's list all of its timestamps are
\* less than 15 minutes older than the time of that write.
C29_BoundedSortedFresh == []TableBoundedSorted /\ [][WritesFresh]_vars

TableBoundedInCallOrder ==
  \A ip \in DOMAIN rateLimitStore :
    /\ Len(rateLimitStore[ip]) <= maxAttempts
    /\ NonDecreasing(admitted[ip]) => NonDecreasing(rateLimitStore[ip])

\* C29 amended: each identity's list holds at most 20 timestamps, in
\* non-decreasing order as long as the clock values of that identity's
\* admitted calls were non-decreasing, and right after any write to an
\* identity's list all of its timestamps are less than 15 minutes older
\* than the time of that write.
C29_BoundedFreshOrderedByClock == []TableBoundedInCallOrder /\ [][WritesFresh]_vars

\* Under a clock that never stepped back for it, an identity's list is full
\* with timestamps of two different instants after a write dropped an
\* attempt that had left the window.
C29_Witness ==
  /\ lastCall.ip = "ip1" /\ lastCall.ok /\ lastCall.time = now
  /\ NonDecreasing(admitted["ip1"])
  /\ Len(admitted["ip1"]) > maxAttempts
  /\ Len(rateLimitStore["ip1"]) = maxAttempts
  /\ rateLimitStore["ip1"][1] < rateLimitStore["ip1"][maxAttempts]

\* The timestamps of the list that are less than 15 minutes older than t, in
\* the order of the list.
RECURSIVE FreshPart(_, _)
FreshPart(list, t) ==
  IF list = << >> THEN << >>
  ELSE IF t - Head(list) < windowMs
    THEN <<Head(list)>> \o FreshPart(Tail(list), t)
    ELSE FreshPart(Tail(list), t)

\* The list the table holds for ip, the empty list when it holds none.
ListOf(store, ip) == IF ip \in DOMAIN store THEN store[ip] ELSE << >>

\* A step in which cleanupRateLimit ran leaves no empty list and no
\* timestamp that has left the window, and keeps every timestamp that is
\* still inside it (the caller's list with the attempt just recorded).
SweepKeepsExactlyFresh ==
  (calls' # calls /\ lastCall'.swept) =>
    /\ \A ip \in DOMAIN rateLimitStore' :
         /\ rateLimitStore'[ip] # << >>
         /\ AllFresh(rateLimitStore'[ip], now)
    /\ \A ip \in IPs :
         ListOf(rateLimitStore', ip)
           = IF ip = lastCall'.ip
               THEN Append(FreshPart(ListOf(rateLimitStore, ip), now), now)
               ELSE FreshPart(ListOf(rateLimitStore, ip), now)

\* C30: after cleanupRateLimit has run, no identity in the rate-limit table
\* maps to an empty list, every retained timestamp is less than 15 minutes
\* old, and no timestamp that is still inside the window has been dropped.
C30_SweepKeepsExactlyFresh == [][SweepKeepsExactlyFresh]_vars

\* A sweep has just deleted the second identity, whose only attempt had left
\* the window, and kept the attempts of the first one that are inside it.
C30_Witness ==
  /\ lastCall.ip = "ip1" /\ lastCall.swept /\ lastCall.time = now
  /\ Len(admitted["ip2"]) > 0
  /\ "ip2" \notin DOMAIN rateLimitStore
  /\ Len(rateLimitStore["ip1"]) > 1
  /\ Len(rateLimitStore["ip1"]) < Len(admitted["ip1"])

----------------------------------------------------------------------------
(* The cleanup sweep and admission *)

\* The attempts (indices into hist) a limiter that never sweeps still holds
\* for an identity whose admitted calls were made at the times hist: each
\* admitted call filters the list by its own clock reading and appends that
\* reading, so an attempt stays as long as every later admitted call of the
\* identity found it less than windowMs old.
NeverSwept(hist) ==
  {i \in 1..Len(hist) : \A j \in (i + 1)..Len(hist) : hist[j] - hist[i] < windowMs}

\* The decision of the limiter that never sweeps on the call just made.
\* (A history shorter than the cap leaves a list shorter than the cap.)
SameAsNeverSwept ==
  LET hist == admitted[lastCall'.ip]
      t == lastCall'.time
  IN  lastCall'.ok <=>
        \/ Len(hist) < maxAttempts
        \/ Cardinality({i \in NeverSwept(hist) : t - hist[i] < windowMs}) < maxAttempts

SweepInvisible == (calls' # calls) => SameAsNeverSwept

ClockNotBehind ==
  \A ip \in IPs : \A i \in 1..Len(admitted[ip]) : admitted[ip][i] <= lastCall'.time

SweepInvisibleForward == (calls' # calls /\ ClockNotBehind) => SameAsNeverSwept

----------------------------------------------------------------------------
(* Rate-limit slots and the requests that take them *)

\* The handler of api/upload.js took up request r in this step.
TakenUp(r) == variant = "analytics" /\ reqs[r].pc = "idle" /\ reqs'[r].pc # "idle"

\* The request passes the configuration, method and origin checks.
PassesEarlyChecks(req) == EnvComplete /\ req.method = "POST" /\ ~ForeignOrigin(req)

\* The limiter has room for the identity: fewer than 20 of its recorded
\* attempts are less than 15 minutes old.
HasRoom(ip) == Len(FreshPart(ListOf(rateLimitStore, ip), now)) < maxAttempts

\* The step that takes up request r records one attempt of its identity
\* exactly when the request passes the early checks and the limiter has
\* room; otherwise it leaves the table as it was and answers 500, 405, 403
\* or the rate-limit 429.
SlotIffAdmitted(r) ==
  LET req == reqs'[r]
      old == ListOf(rateLimitStore, req.ip)
  IN  IF PassesEarlyChecks(req) /\ HasRoom(req.ip)
        THEN /\ ListOf(rateLimitStore', req.ip) = Append(FreshPart(old, now), now)
             /\ req.status \in {0, 413}
        ELSE /\ rateLimitStore' = rateLimitStore
             /\ req.pc = "done"
             /\ \/ req.status \in {500, 405, 403}
                \/ req.status = 429 /\ req.reason = "Rate limit exceeded"

SlotsTakenAtAdmission ==
  IF \E r \in DOMAIN reqs : TakenUp(r)
    THEN \A r \in DOMAIN reqs : TakenUp(r) => SlotIffAdmitted(r)
    ELSE rateLimitStore' = rateLimitStore

\* C32: a request consumes one rate-limit slot of its identity exactly when
\* it passes the configuration, method and origin checks and is admitted by
\* the limiter, whether or not it is later rejected (413, 400, quota 429,
\* 500) or stored: no later step of the handler touches the table, and
\* requests answered 405, 403 or the rate-limit 429 leave it unchanged.
C32_SlotsTakenAtAdmission == [][SlotsTakenAtAdmission]_vars

\* One identity sent a request from a foreign origin, answered 403, and a
\* request that was admitted and later refused for its content (400): the
\* table holds one attempt of that identity.
C32_Witness ==
  \E r \in DOMAIN reqs, q \in DOMAIN reqs :
    /\ variant = "analytics"
    /\ reqs[r].ip = reqs[q].ip
    /\ reqs[r].status = 403
    /\ reqs[q].status = 400
    /\ ListOf(rateLimitStore, reqs[q].ip) = <<now>>

----------------------------------------------------------------------------
(* Rate-limit decisions across identities *)

\* The admitted attempts of the last caller before the last call.
EarlierAdmitted ==
  LET hist == admitted[lastCall.ip]
  IN  IF lastCall.ok THEN SubSeq(hist, 1, Len(hist) - 1) ELSE hist

\* The last call was decided as a limiter that serves no other identity
\* decides it: on the caller's own earlier admitted attempts and the clock.
DecidedByOwnHistory ==
  LET hist == EarlierAdmitted
  IN  lastCall.ok <=>
        \/ Len(hist) < maxAttempts
        \/ Cardinality({i \in NeverSwept(hist) :
                          lastCall.time - hist[i] < windowMs}) < maxAttempts

\* C33 as stated: rate-limit decisions are independent across identities:
\* whether a call for identity A is admitted depends only on A's own earlier
\* admitted attempts and the clock, never on the calls made for another
\* identity or on the cleanup sweeps those calls trigger.
C33_DecidedByOwnHistory == lastCall.ip \in IPs => DecidedByOwnHistory

\* A call is decided on the caller's own stored list and the clock.
OwnListDecides ==
  (calls' # calls) =>
    (lastCall'.ok <=>
       Len(FreshPart(ListOf(rateLimitStore, lastCall'.ip), lastCall'.time)) < maxAttempts)

\* A call leaves of every other identity's list the attempts that are less
\* than 15 minutes old at the time of the call, in their order.
OthersKeepFresh ==
  (calls' # calls) =>
    \A ip \in IPs \ {lastCall'.ip} :
      FreshPart(ListOf(rateLimitStore', ip), lastCall'.time)
        = FreshPart(ListOf(rateLimitStore, ip), lastCall'.time)

\* C33 amended: whether a call for identity A is admitted depends only on
\* A's own stored list and the clock, and a call made for another identity,
\* with the sweep it may trigger, changes A's list only by removing the
\* attempts that are 15 minutes old or older at the time of that call.
C33_DecidedByOwnList == [][OwnListDecides /\ OthersKeepFresh]_vars

\* The second identity was admitted by a call that swept the table while
\* the first identity, refused before, kept its 20 attempts.
C33_Witness ==
  /\ lastCall.ip = "ip2"
  /\ lastCall.ok
  /\ lastCall.swept
  /\ calls["ip1"] > Len(admitted["ip1"])
  /\ Len(ListOf(rateLimitStore, "ip1")) = maxAttempts

----------------------------------------------------------------------------
(* Concurrent requests of one identity *)

\* The attempts of ip the limiter has admitted that are less than 15
\* minutes old.
AdmittedInWindow(ip) ==
  Cardinality({i \in 1..Len(admitted[ip]) : now - admitted[ip][i] < windowMs})

\* No admitted attempt that is still inside the window is missing from the
\* identity's list.
NoAttemptLost(ip) == Len(ListOf(rateLimitStore, ip)) >= AdmittedInWindow(ip)

\* C34: within one process, where the invocations of the handler interleave
\* only at await points, the requests of one identity, concurrent ones
\* included, are never admitted beyond 20 per 15-minute window, and no
\* interleaving loses a timestamp rateLimitCheck appended.
C34_ConcurrentWithinCap ==
  variant = "analytics" =>
    \A ip \in IPs : AdmittedInWindow(ip) <= maxAttempts /\ NoAttemptLost(ip)

\* Two requests of an identity with 19 attempts on record: the first was
\* admitted as the 20th and is still being handled when the second is
\* refused by the limiter.
C34_Witness ==
  \E r \in DOMAIN reqs, q \in DOMAIN reqs :
    /\ variant = "analytics"
    /\ reqs[r].ip = reqs[q].ip
    /\ reqs[r].pc \notin {"idle", "done"}
    /\ reqs[q].status = 429 /\ reqs[q].reason = "Rate limit exceeded"
    /\ AdmittedInWindow(reqs[r].ip) = maxAttempts

----------------------------------------------------------------------------
(* Concurrent increments in the usage-tracker worker *)

\* The /increment call of request r returned success.
IncrementSucceeded(r) ==
  \/ reqs[r].incr = "ok"
  \/ /\ reqs[r].w.route = "increment" /\ reqs[r].w.pc = "replied"
     /\ reqs[r].w.response.success

\* No /increment call is running, and none ended otherwise than in success.
IncrementsSettled ==
  \A r \in DOMAIN reqs :
    /\ reqs[r].incr # "failed"
    /\ reqs[r].w.route = "increment" =>
         reqs[r].w.pc = "replied" /\ reqs[r].w.response.success

\* No /reset was posted.
NoReset == \A r \in DOMAIN reqs : reqs[r].pc # "reset" /\ reqs[r].reason # "reset"

\* The namespace held the records of month 1 when the model started.
MonthOnRecord ==
  /\ StartKV(cfg.start)[<<"usage", 1>>] # Null
  /\ StartKV(cfg.start)[<<"storage", 1>>] # Null

RECURSIVE SumFileSizes(_)
SumFileSizes(rs) ==
  IF rs = {} THEN 0
  ELSE LET r == CHOOSE x \in rs : TRUE
       IN  reqs[r].file.size + SumFileSizes(rs \ {r})

\* C35: in the counter worker, after any interleaving of k authorized
\* /increment requests for classA that each returned success within one
\* month and with no reset, the stored classAOperations equals its initial
\* value plus k and the stored storage bytes equal their initial value plus
\* the sum of the k file sizes: no increment is lost.  (Stated for the
\* namespaces that hold the month's records from the start, where the
\* start-of-month initialisation writes nothing, and for the runs in which
\* no KV operation failed.)
C35_NoIncrementLost ==
  (/\ variant = "counter" /\ month = 1 /\ NoReset /\ IncrementsSettled
   /\ MonthOnRecord /\ kvFailures = 0) =>
    LET done == {r \in DOMAIN reqs : IncrementSucceeded(r)}
        start == StartKV(cfg.start)
    IN  /\ OrZeroUsage(kv[<<"usage", 1>>]).classAOperations
             = OrZeroUsage(start[<<"usage", 1>>]).classAOperations + Cardinality(done)
        /\ OrZeroStorage(kv[<<"storage", 1>>]).bytes
             = OrZeroStorage(start[<<"storage", 1>>]).bytes + SumFileSizes(done)

----------------------------------------------------------------------------
(* The start-of-month initialisation and concurrent increments *)

\* C36: in the counter worker the automatic start-of-month initialisation
\* never overwrites a current-month record that already holds increments:
\* under any interleaving of concurrent requests arriving at the start of a
\* month, once an /increment for that month has returned success, the
\* stored class A count and storage bytes of the month stay above the
\* values the month started from.  (Stated for the first month of the
\* model, without reset and without failing KV operation.)
C36_InitKeepsIncrements ==
  (/\ variant = "counter" /\ month = 1 /\ NoReset /\ kvFailures = 0
   /\ \E r \in DOMAIN reqs : IncrementSucceeded(r)) =>
    LET start == StartKV(cfg.start)
    IN  /\ OrZeroUsage(kv[<<"usage", 1>>]).classAOperations
             > OrZeroUsage(start[<<"usage", 1>>]).classAOperations
        /\ OrZeroStorage(kv[<<"storage", 1>>]).bytes
             > OrZeroStorage(start[<<"storage", 1>>]).bytes

----------------------------------------------------------------------------
(* A removal of the temporary file that fails *)

\* The failures other than the removal of the temporary file that
\* api/upload.js answers with 500: the context of the error response.
OtherFailures == {"USAGE_CHECK", "FILE_READ", "S3_UPLOAD", "UNHANDLED_ERROR"}

\* C37: a removal of the temporary file that fails never changes the
\* outcome of the request: the response keeps the status it would otherwise
\* have had (400 for a validation rejection, 429 for a quota rejection, 200
\* for a stored upload, 500 only for a failure of another step) instead of
\* turning into 500.
C37_FailedRemovalKeepsStatus ==
  \A r \in DOMAIN reqs :
    (reqs[r].pc = "done" /\ reqs[r].temp = "unlink_failed") =>
      \/ reqs[r].status \in {400, 429, 200}
      \/ reqs[r].status = 500 /\ reqs[r].reason \in OtherFailures

----------------------------------------------------------------------------
(* The classification of operations *)

\* The groups of the answer last processed.
GroupsOf(d) ==
  IF Len(d.accounts) = 0 THEN << >> ELSE d.accounts[1].r2OperationsAdaptiveGroups

\* The sum of the request counts of the groups whose action type is in
\* types, a group without request count adding nothing.
RECURSIVE SumRequests(_, _)
SumRequests(groups, types) ==
  IF groups = << >> THEN 0
  ELSE LET op == groups[Len(groups)]
           rest == SubSeq(groups, 1, Len(groups) - 1)
       IN  SumRequests(rest, types)
             + (IF op.actionType \in types /\ op.sum \in {[requests |-> 1], [requests |-> 2]}
                  THEN op.sum.requests ELSE 0)

\* C38: processOperationsData counts every returned operation group in at
\* most one class: the class A total is the sum of requests over the groups
\* whose action type is in the class A list, the class B total is the sum
\* over the groups in the class B list, the two lists share no action type,
\* and groups with any other action type add to neither total.
C38_EachGroupInOneClass ==
  LET groups == GroupsOf(data)
  IN  /\ classA \cap classB = {}
      /\ operationCounts.classA = SumRequests(groups, classA)
      /\ operationCounts.classB = SumRequests(groups, classB)
      /\ operationCounts.classA + operationCounts.classB
           = SumRequests(groups, classA \cup classB)

\* An answer with a class A group, a class B group and a group of neither
\* list, each with requests, was processed.
C38_Witness ==
  LET groups == GroupsOf(data)
  IN  /\ Len(groups) = 3
      /\ \E i, j, k \in 1..Len(groups) :
           /\ groups[i].actionType \in classA /\ groups[i].sum = [requests |-> 2]
           /\ groups[j].actionType \in classB /\ groups[j].sum = [requests |-> 1]
           /\ groups[k].actionType \notin classA \cup classB
           /\ groups[k].sum = [requests |-> 2]
      /\ operationCounts = [classA |-> 2, classB |-> 1]

====
